---- MODULE Spec2Model ----
(***************************************************************************)
(* Kerala-style marriage matching engine (kerala_match_report.py).         *)
(*                                                                         *)
(* The engine is a library of pure functions over immutable charts and     *)
(* static reference tables.  Each function is an operator below, carrying  *)
(* the name it has in the source.  The state machine records one call at   *)
(* a time: which function was called (op), with which arguments (arg) and  *)
(* what it returned or raised (ret).  Every action chooses the arguments   *)
(* of one call from a bounded set and applies the whole function.          *)
(*                                                                         *)
(* Text is modelled as TLA+ strings processed character by character.      *)
(* The input alphabet is ASCII: letters, space, underscore, hyphen.        *)
(*                                                                         *)
(* Numbers: the compatibility score is kept in thousandths of a point and  *)
(* the individual scores in thousandths as well, so 4.5 is 4500.  Every    *)
(* constant of the source is a multiple of 0.001, hence the arithmetic of  *)
(* the model is the exact decimal arithmetic the float code approximates.  *)
(***************************************************************************)
EXTENDS Integers, Sequences, FiniteSets, TLC

VARIABLES op, arg, ret

vars == <<op, arg, ret>>

(***************************************************************************)
(* Python values                                                           *)
(***************************************************************************)

\* A call either returns a value or raises an exception.
Return(v) == [ok |-> TRUE, val |-> v]
Raise(exc, what) == [ok |-> FALSE, exc |-> exc, what |-> what]

Range(s) == {s[i] : i \in DOMAIN s}

IndexOf(s, x) == CHOOSE i \in DOMAIN s : s[i] = x /\ \A j \in 1..(i-1) : s[j] # x

Min(a, b) == IF a <= b THEN a ELSE b
Max(a, b) == IF a >= b THEN a ELSE b
Abs(a) == IF a >= 0 THEN a ELSE -a

RECURSIVE SumOver(_, _)
SumOver(S, f) ==
    IF S = {} THEN 0
    ELSE LET x == CHOOSE y \in S : TRUE IN f[x] + SumOver(S \ {x}, f)

(***************************************************************************)
(* str methods: isalpha, lower, "in" (substring), split()[0]               *)
(***************************************************************************)

LowerLetters ==
    { "a", "b", "c", "d", "e", "f", "g", "h", "i", "j", "k", "l", "m",
      "n", "o", "p", "q", "r", "s", "t", "u", "v", "w", "x", "y", "z" }

LowerOf ==
    "A" :> "a" @@ "B" :> "b" @@ "C" :> "c" @@ "D" :> "d" @@ "E" :> "e" @@ "F" :> "f" @@ "G" :> "g" @@
    "H" :> "h" @@ "I" :> "i" @@ "J" :> "j" @@ "K" :> "k" @@ "L" :> "l" @@ "M" :> "m" @@ "N" :> "n" @@
    "O" :> "o" @@ "P" :> "p" @@ "Q" :> "q" @@ "R" :> "r" @@ "S" :> "s" @@ "T" :> "t" @@ "U" :> "u" @@
    "V" :> "v" @@ "W" :> "w" @@ "X" :> "x" @@ "Y" :> "y" @@ "Z" :> "z"

CharAt(s, i) == SubSeq(s, i, i)

IsAlpha(ch) == ch \in LowerLetters \/ ch \in DOMAIN LowerOf

LowerChar(ch) == IF ch \in DOMAIN LowerOf THEN LowerOf[ch] ELSE ch

\* s.lower()
str_lower(s) ==
    LET F[i \in 0..Len(s)] ==
            IF i = 0 THEN "" ELSE F[i-1] \o LowerChar(CharAt(s, i))
    IN F[Len(s)]

\* kw in s
Contains(kw, s) ==
    \E i \in 1..(Len(s) - Len(kw) + 1) : SubSeq(s, i, i + Len(kw) - 1) = kw

\* s.split(): the index of the first non-blank character, 0 when there is none
FirstNonBlank(s) ==
    IF \E i \in 1..Len(s) : CharAt(s, i) # " "
    THEN CHOOSE i \in 1..Len(s) :
            CharAt(s, i) # " " /\ \A j \in 1..(i-1) : CharAt(s, j) = " "
    ELSE 0

\* s.split()[0] for a text with a non-blank character
FirstToken(s) ==
    LET b == FirstNonBlank(s)
        e == IF \E i \in b..Len(s) : CharAt(s, i) = " "
             THEN (CHOOSE i \in b..Len(s) :
                      CharAt(s, i) = " " /\ \A j \in b..(i-1) : CharAt(s, j) # " ") - 1
             ELSE Len(s)
    IN SubSeq(s, b, e)

(***************************************************************************)
(* Core constants and reference tables                                     *)
(***************************************************************************)

MALEFIC_PLANETS == <<"Mars", "Saturn", "Sun", "Rahu", "Ketu">>
BENEFIC_PLANETS == <<"Jupiter", "Venus", "Mercury", "Moon">>

PAPAM_HOUSES == {1, 2, 4, 7, 8, 12}

NAK_ORDER ==
    << "ashwini", "bharani", "krittika", "rohini", "mrigasira", "ardra",
       "punarvasu", "pushya", "ashlesha", "magha", "purvaphalguni", "uttaraphalguni",
       "hasta", "chitra", "swati", "vishakha", "anuradha", "jyeshta",
       "moola", "purvashadha", "uttarashadha", "shravana", "dhanishta", "satabhisha",
       "purvabhadra", "uttarabhadrapada", "revati" >>

YONI_BY_NAK ==
    "ashwini" :> <<"ashwa", "mahish">> @@ "satabhisha" :> <<"ashwa", "mahish">> @@
    "shatataraka" :> <<"ashwa", "mahish">> @@ "bharani" :> <<"gaja", "simha">> @@
    "revati" :> <<"gaja", "simha">> @@ "krittika" :> <<"mesha", "vanar">> @@
    "pushya" :> <<"mesha", "vanar">> @@ "pushyami" :> <<"mesha", "vanar">> @@
    "rohini" :> <<"sarpa", "nakul">> @@ "mrigasira" :> <<"sarpa", "nakul">> @@
    "mrigashirsha" :> <<"sarpa", "nakul">> @@ "moola" :> <<"shwan", "mriga">> @@
    "mula" :> <<"shwan", "mriga">> @@ "ardra" :> <<"shwan", "mriga">> @@
    "ashlesha" :> <<"marjar", "mushak">> @@ "aslesha" :> <<"marjar", "mushak">> @@
    "punarvasu" :> <<"marjar", "mushak">> @@ "magha" :> <<"mushak", "marjar">> @@
    "purvaphalguni" :> <<"mushak", "marjar">> @@ "uttaraphalguni" :> <<"go", "vyaghra">> @@
    "uttarabhadrapada" :> <<"go", "vyaghra">> @@ "swati" :> <<"mahish", "ashwa">> @@
    "hasta" :> <<"mahish", "ashwa">> @@ "vishakha" :> <<"vyaghra", "go">> @@
    "visakha" :> <<"vyaghra", "go">> @@ "chitra" :> <<"vyaghra", "go">> @@
    "jyeshta" :> <<"mriga", "shwan">> @@ "jyestha" :> <<"mriga", "shwan">> @@
    "anuradha" :> <<"mriga", "shwan">> @@ "purvashadha" :> <<"vanar", "mesha">> @@
    "purvashada" :> <<"vanar", "mesha">> @@ "shravana" :> <<"vanar", "mesha">> @@
    "purvabhadra" :> <<"simha", "gaja">> @@ "purvabhadrapada" :> <<"simha", "gaja">> @@
    "dhanishta" :> <<"simha", "gaja">> @@ "uttarashadha" :> <<"nakul", "sarpa">> @@
    "uttarashada" :> <<"nakul", "sarpa">> @@ "abhijit" :> <<"nakul", "sarpa">>

GANA_BY_NAK ==
    "ashwini" :> "Deva" @@ "mrigasira" :> "Deva" @@ "mrigashirsha" :> "Deva" @@
    "punarvasu" :> "Deva" @@ "pushya" :> "Deva" @@ "pushyami" :> "Deva" @@
    "hasta" :> "Deva" @@ "swati" :> "Deva" @@ "anuradha" :> "Deva" @@
    "shravana" :> "Deva" @@ "sravana" :> "Deva" @@ "revati" :> "Deva" @@
    "bharani" :> "Manushya" @@ "rohini" :> "Manushya" @@ "ardra" :> "Manushya" @@
    "arudra" :> "Manushya" @@ "purvaphalguni" :> "Manushya" @@ "purva_phalguni" :> "Manushya" @@
    "uttaraphalguni" :> "Manushya" @@ "uttara_phalguni" :> "Manushya" @@ "purvashadha" :> "Manushya" @@
    "purvashada" :> "Manushya" @@ "uttarashadha" :> "Manushya" @@ "uttarashada" :> "Manushya" @@
    "purvabhadra" :> "Manushya" @@ "purvabhadrapada" :> "Manushya" @@ "uttarabhadrapada" :> "Manushya" @@
    "krittika" :> "Rakshasa" @@ "kritika" :> "Rakshasa" @@ "ashlesha" :> "Rakshasa" @@
    "aslesha" :> "Rakshasa" @@ "magha" :> "Rakshasa" @@ "chitra" :> "Rakshasa" @@
    "vishakha" :> "Rakshasa" @@ "visakha" :> "Rakshasa" @@ "jyeshta" :> "Rakshasa" @@
    "jyestha" :> "Rakshasa" @@ "moola" :> "Rakshasa" @@ "mula" :> "Rakshasa" @@
    "dhanishta" :> "Rakshasa" @@ "satabhisha" :> "Rakshasa" @@ "shatataraka" :> "Rakshasa"

RASI_CANON ==
    << "mesha", "vrishabha", "mithuna", "karka", "simha", "kanya",
       "tula", "vrischika", "dhanu", "makara", "kumbha", "meena" >>

RASI_LORD ==
    "mesha" :> "Mars" @@ "vrishabha" :> "Venus" @@ "mithuna" :> "Mercury" @@
    "karka" :> "Moon" @@ "simha" :> "Sun" @@ "kanya" :> "Mercury" @@
    "tula" :> "Venus" @@ "vrischika" :> "Mars" @@ "dhanu" :> "Jupiter" @@
    "makara" :> "Saturn" @@ "kumbha" :> "Saturn" @@ "meena" :> "Jupiter"

PLANET_RELATIONSHIPS ==
    "Sun" :> [friends |-> {"Jupiter", "Mars", "Moon"}, neutrals |-> {"Mercury"}, enemies |-> {"Saturn", "Venus"}] @@
    "Moon" :> [friends |-> {"Mercury", "Sun"}, neutrals |-> {"Jupiter", "Mars", "Saturn", "Venus"}, enemies |-> {}] @@
    "Mars" :> [friends |-> {"Jupiter", "Moon", "Sun"}, neutrals |-> {"Saturn", "Venus"}, enemies |-> {"Mercury"}] @@
    "Mercury" :> [friends |-> {"Sun", "Venus"}, neutrals |-> {"Jupiter", "Mars", "Saturn"}, enemies |-> {"Moon"}] @@
    "Jupiter" :> [friends |-> {"Mars", "Moon", "Sun"}, neutrals |-> {"Saturn"}, enemies |-> {"Mercury", "Venus"}] @@
    "Venus" :> [friends |-> {"Mercury", "Saturn"}, neutrals |-> {"Jupiter", "Mars"}, enemies |-> {"Moon", "Sun"}] @@
    "Saturn" :> [friends |-> {"Mercury", "Venus"}, neutrals |-> {"Jupiter"}, enemies |-> {"Mars", "Moon", "Sun"}]

VASYA_MATRIX ==
    "mesha" :> (
        "mesha" :> "Good" @@ "vrishabha" :> "Good" @@ "mithuna" :> "OK" @@ "karka" :> "Bad" @@
        "simha" :> "Good" @@ "kanya" :> "OK" @@ "tula" :> "OK" @@ "vrischika" :> "OK" @@
        "dhanu" :> "Good" @@ "makara" :> "Good" @@ "kumbha" :> "OK" @@ "meena" :> "Bad") @@
    "vrishabha" :> (
        "mesha" :> "Good" @@ "vrishabha" :> "Good" @@ "mithuna" :> "OK" @@ "karka" :> "Bad" @@
        "simha" :> "Good" @@ "kanya" :> "OK" @@ "tula" :> "OK" @@ "vrischika" :> "OK" @@
        "dhanu" :> "Good" @@ "makara" :> "Good" @@ "kumbha" :> "OK" @@ "meena" :> "Bad") @@
    "mithuna" :> (
        "mesha" :> "OK" @@ "vrishabha" :> "OK" @@ "mithuna" :> "Good" @@ "karka" :> "OK" @@
        "simha" :> "Bad" @@ "kanya" :> "Good" @@ "tula" :> "Good" @@ "vrischika" :> "Bad" @@
        "dhanu" :> "OK" @@ "makara" :> "OK" @@ "kumbha" :> "Good" @@ "meena" :> "OK") @@
    "karka" :> (
        "mesha" :> "Bad" @@ "vrishabha" :> "Bad" @@ "mithuna" :> "OK" @@ "karka" :> "Good" @@
        "simha" :> "OK" @@ "kanya" :> "OK" @@ "tula" :> "OK" @@ "vrischika" :> "OK" @@
        "dhanu" :> "Bad" @@ "makara" :> "Bad" @@ "kumbha" :> "OK" @@ "meena" :> "Good") @@
    "simha" :> (
        "mesha" :> "Good" @@ "vrishabha" :> "Good" @@ "mithuna" :> "Bad" @@ "karka" :> "OK" @@
        "simha" :> "Good" @@ "kanya" :> "Bad" @@ "tula" :> "Bad" @@ "vrischika" :> "OK" @@
        "dhanu" :> "Good" @@ "makara" :> "Good" @@ "kumbha" :> "Bad" @@ "meena" :> "OK") @@
    "kanya" :> (
        "mesha" :> "OK" @@ "vrishabha" :> "OK" @@ "mithuna" :> "Good" @@ "karka" :> "OK" @@
        "simha" :> "Bad" @@ "kanya" :> "Good" @@ "tula" :> "Good" @@ "vrischika" :> "OK" @@
        "dhanu" :> "OK" @@ "makara" :> "OK" @@ "kumbha" :> "Good" @@ "meena" :> "OK") @@
    "tula" :> (
        "mesha" :> "OK" @@ "vrishabha" :> "OK" @@ "mithuna" :> "Good" @@ "karka" :> "OK" @@
        "simha" :> "Bad" @@ "kanya" :> "Good" @@ "tula" :> "Good" @@ "vrischika" :> "OK" @@
        "dhanu" :> "OK" @@ "makara" :> "OK" @@ "kumbha" :> "Good" @@ "meena" :> "OK") @@
    "vrischika" :> (
        "mesha" :> "OK" @@ "vrishabha" :> "OK" @@ "mithuna" :> "Bad" @@ "karka" :> "OK" @@
        "simha" :> "OK" @@ "kanya" :> "OK" @@ "tula" :> "OK" @@ "vrischika" :> "Good" @@
        "dhanu" :> "Bad" @@ "makara" :> "OK" @@ "kumbha" :> "Bad" @@ "meena" :> "OK") @@
    "dhanu" :> (
        "mesha" :> "Good" @@ "vrishabha" :> "Good" @@ "mithuna" :> "OK" @@ "karka" :> "Bad" @@
        "simha" :> "Good" @@ "kanya" :> "OK" @@ "tula" :> "OK" @@ "vrischika" :> "OK" @@
        "dhanu" :> "Good" @@ "makara" :> "Good" @@ "kumbha" :> "OK" @@ "meena" :> "Bad") @@
    "makara" :> (
        "mesha" :> "Good" @@ "vrishabha" :> "Good" @@ "mithuna" :> "OK" @@ "karka" :> "Bad" @@
        "simha" :> "Good" @@ "kanya" :> "OK" @@ "tula" :> "OK" @@ "vrischika" :> "OK" @@
        "dhanu" :> "Good" @@ "makara" :> "Good" @@ "kumbha" :> "OK" @@ "meena" :> "Bad") @@
    "kumbha" :> (
        "mesha" :> "OK" @@ "vrishabha" :> "OK" @@ "mithuna" :> "Good" @@ "karka" :> "OK" @@
        "simha" :> "Bad" @@ "kanya" :> "Good" @@ "tula" :> "Good" @@ "vrischika" :> "Bad" @@
        "dhanu" :> "OK" @@ "makara" :> "OK" @@ "kumbha" :> "Good" @@ "meena" :> "OK") @@
    "meena" :> (
        "mesha" :> "Bad" @@ "vrishabha" :> "Bad" @@ "mithuna" :> "OK" @@ "karka" :> "Good" @@
        "simha" :> "OK" @@ "kanya" :> "OK" @@ "tula" :> "OK" @@ "vrischika" :> "OK" @@
        "dhanu" :> "Bad" @@ "makara" :> "Bad" @@ "kumbha" :> "OK" @@ "meena" :> "Good")

VEDHA_PAIRS ==
    "ashwini" :> "jyeshta" @@ "bharani" :> "anuradha" @@
    "krittika" :> "vishakha" @@ "rohini" :> "swati" @@
    "mrigasira" :> "chitra" @@ "mrigashirsha" :> "chitra" @@
    "ardra" :> "hasta" @@ "arudra" :> "hasta" @@
    "punarvasu" :> "uttaraphalguni" @@ "pushya" :> "purvaphalguni" @@
    "pushyami" :> "purvaphalguni" @@ "ashlesha" :> "magha" @@
    "aslesha" :> "magha" @@ "magha" :> "ashlesha" @@
    "purvaphalguni" :> "pushya" @@ "purva_phalguni" :> "pushya" @@
    "uttaraphalguni" :> "punarvasu" @@ "uttara_phalguni" :> "punarvasu" @@
    "hasta" :> "ardra" @@ "chitra" :> "mrigasira" @@
    "swati" :> "rohini" @@ "vishakha" :> "krittika" @@
    "visakha" :> "krittika" @@ "anuradha" :> "bharani" @@
    "jyeshta" :> "ashwini" @@ "jyestha" :> "ashwini" @@
    "moola" :> "revati" @@ "mula" :> "revati" @@
    "purvashadha" :> "uttarabhadrapada" @@ "purvashada" :> "uttarabhadrapada" @@
    "uttarashadha" :> "purvabhadrapada" @@ "uttarashada" :> "purvabhadrapada" @@
    "shravana" :> "satabhisha" @@ "sravana" :> "satabhisha" @@
    "dhanishta" :> "revati" @@ "satabhisha" :> "shravana" @@
    "shatataraka" :> "shravana" @@ "purvabhadrapada" :> "uttarashadha" @@
    "purvabhadra" :> "uttarashadha" @@ "uttarabhadrapada" :> "purvashadha" @@
    "revati" :> "moola"

RAJJU_GROUPS ==
    "Siro" :> [body |-> "Head", nakshatras |-> <<"Chitra", "Mrigasira", "Dhanishta">>] @@
    "Kanta" :> [body |-> "Neck", nakshatras |-> <<"Ardra", "Rohini", "Swati", "Hasta", "Shravana", "Satabhisha">>] @@
    "Nabhi" :> [body |-> "Navel", nakshatras |-> <<"Krittika", "Uttaraphalguni", "Punarvasu", "Vishakha", "Purvabhadra", "Uttarashadha">>] @@
    "Kati" :> [body |-> "Thigh", nakshatras |-> <<"Pushya", "Bharani", "Purvaphalguni", "Anuradha", "Uttarabhadrapada", "Purvashadha">>] @@
    "Pada" :> [body |-> "Feet", nakshatras |-> <<"Ashwini", "Ashlesha", "Magha", "Moola", "Jyeshta", "Revati">>]

NAKSHATRA_OPTIONS ==
    << "Ashwini", "Bharani", "Krittika", "Rohini", "Mrigasira", "Ardra",
       "Punarvasu", "Pushya", "Ashlesha", "Magha", "Purvaphalguni", "Uttaraphalguni",
       "Hasta", "Chitra", "Swati", "Vishakha", "Anuradha", "Jyeshta",
       "Moola", "Purvashadha", "Uttarashadha", "Shravana", "Dhanishta", "Satabhisha",
       "Purvabhadra", "Uttarabhadrapada", "Revati" >>
RASI_OPTIONS ==
    << "Mesha", "Vrishabha", "Mithuna", "Karka", "Simha", "Kanya",
       "Tula", "Vrischika", "Dhanu", "Makara", "Kumbha", "Meena" >>

(***************************************************************************)
(* Normalizer                                                              *)
(***************************************************************************)

\* "".join(ch.lower() for ch in name if ch.isalpha())
norm_nak_name(name) ==
    LET F[i \in 0..Len(name)] ==
            IF i = 0 THEN ""
            ELSE IF IsAlpha(CharAt(name, i))
                 THEN F[i-1] \o LowerChar(CharAt(name, i))
                 ELSE F[i-1]
    IN F[Len(name)]

\* 1..27 index of the nakshatra in NAK_ORDER, ValueError when not found
get_nak_index(nakshatra) ==
    LET key == norm_nak_name(nakshatra) IN
    IF key \notin Range(NAK_ORDER)
    THEN Raise("ValueError", "nakshatra not recognized")
    ELSE Return(IndexOf(NAK_ORDER, key))


norm_rasi_aliases ==
    "aries" :> "mesha" @@ "taurus" :> "vrishabha" @@ "gemini" :> "mithuna" @@
    "cancer" :> "karka" @@ "leo" :> "simha" @@ "virgo" :> "kanya" @@
    "libra" :> "tula" @@ "scorpio" :> "vrischika" @@ "sagittarius" :> "dhanu" @@
    "capricorn" :> "makara" @@ "aquarius" :> "kumbha" @@ "pisces" :> "meena" @@
    "thula" :> "tula" @@ "vrischikam" :> "vrischika"

\* canonical key mesha..meena, or the letters-only lower-case text itself
norm_rasi_name(name) ==
    LET key == norm_nak_name(name) IN
    IF key \in Range(RASI_CANON) THEN key
    ELSE IF key \in DOMAIN norm_rasi_aliases THEN norm_rasi_aliases[key]
    ELSE key

RASI_INDEX == [name \in Range(RASI_CANON) |-> IndexOf(RASI_CANON, name)]

\* the table keyed by the display spellings of RAJJU_GROUPS
RAJJU_BY_NAK_RAW_KEYS ==
    [k \in UNION {Range(RAJJU_GROUPS[g].nakshatras) : g \in DOMAIN RAJJU_GROUPS} |->
        LET g == CHOOSE grp \in DOMAIN RAJJU_GROUPS :
                    k \in Range(RAJJU_GROUPS[grp].nakshatras)
        IN <<g, RAJJU_GROUPS[g].body>>]

RAJJU_BY_NAK ==
    [k \in UNION {{norm_nak_name(n) : n \in Range(RAJJU_GROUPS[g].nakshatras)} :
                    g \in DOMAIN RAJJU_GROUPS} |->
        LET g == CHOOSE grp \in DOMAIN RAJJU_GROUPS :
                    k \in {norm_nak_name(n) : n \in Range(RAJJU_GROUPS[grp].nakshatras)}
        IN <<g, RAJJU_GROUPS[g].body>>]

(***************************************************************************)
(* Position deriver                                                        *)
(***************************************************************************)

\* A house map is a function from body names to houses (a Python dict).
\* m.get(planet) in houses: an absent body is in no house.
InHouses(m, planet, houses) == planet \in DOMAIN m /\ m[planet] \in houses

\* a missing reference body taken to be in house 1 instead of failing
derive_positions_default_ref(planets_from_lagna, reference_planet) ==
    LET ref_house == IF reference_planet \in DOMAIN planets_from_lagna
                     THEN planets_from_lagna[reference_planet] ELSE 1 IN
    Return([planet \in DOMAIN planets_from_lagna |->
               ((planets_from_lagna[planet] - ref_house) % 12) + 1])

\* houses counted from 0: the final + 1 is left out
derive_positions_zero_based(planets_from_lagna, reference_planet) ==
    IF reference_planet \notin DOMAIN planets_from_lagna
    THEN Raise("ValueError", reference_planet \o " not found in planets_from_lagna")
    ELSE LET ref_house == planets_from_lagna[reference_planet] IN
         Return([planet \in DOMAIN planets_from_lagna |->
                    (planets_from_lagna[planet] - ref_house) % 12])

\* houses counted from the body back to the reference
derive_positions_backwards(planets_from_lagna, reference_planet) ==
    IF reference_planet \notin DOMAIN planets_from_lagna
    THEN Raise("ValueError", reference_planet \o " not found in planets_from_lagna")
    ELSE LET ref_house == planets_from_lagna[reference_planet] IN
         Return([planet \in DOMAIN planets_from_lagna |->
                    ((ref_house - planets_from_lagna[planet]) % 12) + 1])

derive_positions_from_reference(planets_from_lagna, reference_planet) ==
    IF reference_planet \notin DOMAIN planets_from_lagna
    THEN Raise("ValueError", reference_planet \o " not found in planets_from_lagna")
    ELSE LET ref_house == planets_from_lagna[reference_planet] IN
         Return([planet \in DOMAIN planets_from_lagna |->
                    ((planets_from_lagna[planet] - ref_house) % 12) + 1])

\* One call seen from the caller: the returned dict (or the exception) and
\* the caller's dict afterwards.  The function reads planets_from_lagna and
\* writes only to its local result.
derive_positions_call(planets_from_lagna, reference_planet) ==
    [ret |-> derive_positions_from_reference(planets_from_lagna, reference_planet),
     planets_from_lagna |-> planets_from_lagna]

(***************************************************************************)
(* Papasamya                                                               *)
(***************************************************************************)

\* the whole malefic list, Ketu included
PAPASAMYA_PLANETS_ALL_MALEFICS == MALEFIC_PLANETS

PAPASAMYA_PLANETS == <<"Mars", "Saturn", "Sun", "Rahu">>

compute_papasamya_for_person(person) ==
    LET lagna_map == person.planets_from_lagna
        moon_map == derive_positions_from_reference(lagna_map, "Moon")
        venus_map == derive_positions_from_reference(lagna_map, "Venus")
        points == [i \in DOMAIN PAPASAMYA_PLANETS |->
                     LET planet == PAPASAMYA_PLANETS[i] IN
                       (IF InHouses(lagna_map, planet, PAPAM_HOUSES) THEN 1 ELSE 0)
                     + (IF InHouses(moon_map.val, planet, PAPAM_HOUSES) THEN 1 ELSE 0)
                     + (IF InHouses(venus_map.val, planet, PAPAM_HOUSES) THEN 1 ELSE 0)]
    IN IF ~moon_map.ok THEN moon_map
       ELSE IF ~venus_map.ok THEN venus_map
       ELSE Return(SumOver(DOMAIN PAPASAMYA_PLANETS, points))

\* the difference taken without abs()
papasamya_match_signed(girl, boy) ==
    LET girl_total == compute_papasamya_for_person(girl)
        boy_total == compute_papasamya_for_person(boy)
        diff == girl_total.val - boy_total.val
        verdict == IF diff = 0
                   THEN "Excellent (Thulya Papam - perfectly balanced)"
                   ELSE IF diff <= 2
                   THEN "Acceptable (within Kerala limit)"
                   ELSE "Not acceptable (Papasamya difference too high)"
    IN IF ~girl_total.ok THEN girl_total
       ELSE IF ~boy_total.ok THEN boy_total
       ELSE Return([girl_total |-> girl_total.val, boy_total |-> boy_total.val,
                    difference |-> diff, verdict |-> verdict])

papasamya_match(girl, boy) ==
    LET girl_total == compute_papasamya_for_person(girl)
        boy_total == compute_papasamya_for_person(boy)
        diff == Abs(girl_total.val - boy_total.val)
        verdict == IF diff = 0
                   THEN "Excellent (Thulya Papam - perfectly balanced)"
                   ELSE IF diff <= 2
                   THEN "Acceptable (within Kerala limit)"
                   ELSE "Not acceptable (Papasamya difference too high)"
    IN IF ~girl_total.ok THEN girl_total
       ELSE IF ~boy_total.ok THEN boy_total
       ELSE Return([girl_total |-> girl_total.val, boy_total |-> boy_total.val,
                    difference |-> diff, verdict |-> verdict])

(***************************************************************************)
(* Manglik (Kuja dosha)                                                    *)
(***************************************************************************)

\* the dosha houses without the second house
is_manglik_without_second(house) == house \in {1, 4, 7, 8, 12}

is_manglik_from_lagna(house) == house \in {1, 2, 4, 7, 8, 12}

\* bool(mars_house and is_manglik_from_lagna(mars_house)): None and 0 are falsy
compute_manglik(person) ==
    /\ "Mars" \in DOMAIN person.planets_from_lagna
    /\ person.planets_from_lagna["Mars"] # 0
    /\ is_manglik_from_lagna(person.planets_from_lagna["Mars"])

VERDICT_BOTH ==
    "Kuja dosha check: both charts have Manglik-type placement, so the dosha is balanced/cancelled in Kerala logic."
VERDICT_GIRL_ONLY ==
    "Kuja dosha check: girl has Manglik placement, boy does not. Needs more detailed individual analysis or remedial handling."
VERDICT_BOY_ONLY ==
    "Kuja dosha check: boy has Manglik placement, girl does not. Needs more detailed individual analysis or remedial handling."
\* the dash is an en dash in the source text
VERDICT_NEITHER ==
    "Kuja dosha check: neither chart is Manglik - no Kuja dosha issue."

manglik_match(girl, boy) ==
    LET girl_m == compute_manglik(girl)
        boy_m == compute_manglik(boy)
        combined ==
            IF girl_m /\ boy_m THEN VERDICT_BOTH
            ELSE IF girl_m /\ ~boy_m THEN VERDICT_GIRL_ONLY
            ELSE IF ~girl_m /\ boy_m THEN VERDICT_BOY_ONLY
            ELSE VERDICT_NEITHER
    IN [girl_manglik |-> girl_m, boy_manglik |-> boy_m, combined_verdict |-> combined]

(***************************************************************************)
(* Porutham evaluators.  A PoruthamResult is [name, status]; the comment,  *)
(* detail and logic texts are report data and are kept only where the      *)
(* code's choice of text is itself at issue (Rasi).                        *)
(***************************************************************************)

\* d.get(k): <<v>> when present, <<>> for None
DictGet(d, k) == IF k \in DOMAIN d THEN <<d[k]>> ELSE <<>>

PoruthamResult(name, status) == [name |-> name, status |-> status]

get_yoni_info(nakshatra) == DictGet(YONI_BY_NAK, norm_nak_name(nakshatra))

\* "same" is decided on the star names instead of the yoni keys
compute_yoni_porutham_same_star(girl, boy) ==
    LET g_info == get_yoni_info(girl.nakshatra)
        b_info == get_yoni_info(boy.nakshatra)
    IN IF g_info = <<>> \/ b_info = <<>>
       THEN PoruthamResult("Yoni", "Unknown")
       ELSE LET g_key == g_info[1][1]
                g_enemy_key == g_info[1][2]
                b_key == b_info[1][1]
                b_enemy_key == b_info[1][2]
            IN IF norm_nak_name(girl.nakshatra) = norm_nak_name(boy.nakshatra)
               THEN PoruthamResult("Yoni", "Very Good")
               ELSE IF g_enemy_key = b_key \/ b_enemy_key = g_key
               THEN PoruthamResult("Yoni", "Bad")
               ELSE PoruthamResult("Yoni", "Neutral")

compute_yoni_porutham(girl, boy) ==
    LET g_info == get_yoni_info(girl.nakshatra)
        b_info == get_yoni_info(boy.nakshatra)
    IN IF g_info = <<>> \/ b_info = <<>>
       THEN PoruthamResult("Yoni", "Unknown")
       ELSE LET g_key == g_info[1][1]
                g_enemy_key == g_info[1][2]
                b_key == b_info[1][1]
                b_enemy_key == b_info[1][2]
            IN IF g_key = b_key THEN PoruthamResult("Yoni", "Very Good")
               ELSE IF g_enemy_key = b_key \/ b_enemy_key = g_key
               THEN PoruthamResult("Yoni", "Bad")
               ELSE PoruthamResult("Yoni", "Neutral")

get_gana(nakshatra) == DictGet(GANA_BY_NAK, norm_nak_name(nakshatra))

compatibility_map ==
    <<"Deva", "Deva">> :> "Excellent" @@
    <<"Deva", "Manushya">> :> "Good" @@
    <<"Deva", "Rakshasa">> :> "Not Preferred" @@
    <<"Manushya", "Deva">> :> "Good" @@
    <<"Manushya", "Manushya">> :> "Good" @@
    <<"Manushya", "Rakshasa">> :> "Acceptable" @@
    <<"Rakshasa", "Deva">> :> "Good" @@
    <<"Rakshasa", "Manushya">> :> "OK" @@
    <<"Rakshasa", "Rakshasa">> :> "Acceptable"

\* the matrix is read with the boy's gana first
compute_gana_porutham_boy_first(girl, boy) ==
    LET g_gana == get_gana(girl.nakshatra)
        b_gana == get_gana(boy.nakshatra)
    IN IF g_gana = <<>> \/ b_gana = <<>>
       THEN PoruthamResult("Gana", "Unknown")
       ELSE PoruthamResult("Gana", compatibility_map[<<b_gana[1], g_gana[1]>>])

compute_gana_porutham(girl, boy) ==
    LET g_gana == get_gana(girl.nakshatra)
        b_gana == get_gana(boy.nakshatra)
    IN IF g_gana = <<>> \/ b_gana = <<>>
       THEN PoruthamResult("Gana", "Unknown")
       ELSE PoruthamResult("Gana", compatibility_map[<<g_gana[1], b_gana[1]>>])

get_planet_relationship(planet1, planet2) ==
    IF planet1 = planet2 THEN <<"same", "same">>
    ELSE LET rel1 == DictGet(PLANET_RELATIONSHIPS, planet1)
             rel2 == DictGet(PLANET_RELATIONSHIPS, planet2)
             View(rel, other) ==
                 IF rel # <<>> /\ other \in rel[1].friends THEN "friend"
                 ELSE IF rel # <<>> /\ other \in rel[1].enemies THEN "enemy"
                 ELSE "neutral"
         IN <<View(rel1, planet2), View(rel2, planet1)>>

get_vasya_compatibility(girl_rasi, boy_rasi) ==
    LET g_r == norm_rasi_name(girl_rasi)
        b_r == norm_rasi_name(boy_rasi)
    IN IF g_r \notin DOMAIN VASYA_MATRIX \/ b_r \notin DOMAIN VASYA_MATRIX[g_r]
       THEN "Unknown"
       ELSE VASYA_MATRIX[g_r][b_r]

\* only the first nakshatra's partner is looked up
nakshatra_has_vedha_one_way(n1, n2) ==
    LET p1 == DictGet(VEDHA_PAIRS, norm_nak_name(n1))
    IN p1 # <<>> /\ norm_nak_name(p1[1]) = norm_nak_name(n2)

nakshatra_has_vedha(n1, n2) ==
    LET n1_norm == norm_nak_name(n1)
        n2_norm == norm_nak_name(n2)
        p1 == DictGet(VEDHA_PAIRS, n1_norm)
        p2 == DictGet(VEDHA_PAIRS, n2_norm)
    IN IF p1 # <<>> /\ norm_nak_name(p1[1]) = n2_norm THEN TRUE
       ELSE IF p2 # <<>> /\ norm_nak_name(p2[1]) = n1_norm THEN TRUE
       ELSE FALSE

compute_rajju_porutham(girl, boy) ==
    LET g_info == DictGet(RAJJU_BY_NAK, norm_nak_name(girl.nakshatra))
        b_info == DictGet(RAJJU_BY_NAK, norm_nak_name(boy.nakshatra))
    IN IF g_info = <<>> \/ b_info = <<>>
       THEN PoruthamResult("Rajju", "Unknown")
       ELSE IF g_info[1][1] = b_info[1][1]
       THEN PoruthamResult("Rajju", "Bad")
       ELSE PoruthamResult("Rajju", "SAFE")

\* the count is reduced modulo 9 and a remainder of 0 is left as it is
compute_dina_porutham_no_wrap(girl, boy) ==
    LET g_idx == get_nak_index(girl.nakshatra)
        b_idx == get_nak_index(boy.nakshatra)
    IN IF ~g_idx.ok \/ ~b_idx.ok
       THEN PoruthamResult("Dina", "Unknown")
       ELSE LET G0 == g_idx.val - 1
                B0 == b_idx.val - 1
                steps == (B0 - G0) % 27
                count == steps + 1
                tara == count % 9
                status == IF tara \in {2, 4, 6, 8, 9} THEN "Good"
                          ELSE IF tara = 1 THEN "Average"
                          ELSE "Bad"
            IN [name |-> "Dina", status |-> status,
                steps |-> steps, count |-> count, tara |-> tara]

\* steps, count and tara are the numbers the detail text reports
compute_dina_porutham(girl, boy) ==
    LET g_idx == get_nak_index(girl.nakshatra)
        b_idx == get_nak_index(boy.nakshatra)
    IN IF ~g_idx.ok \/ ~b_idx.ok
       THEN PoruthamResult("Dina", "Unknown")
       ELSE LET G0 == g_idx.val - 1
                B0 == b_idx.val - 1
                steps == (B0 - G0) % 27
                count == steps + 1
                tara == IF count % 9 = 0 THEN 9 ELSE count % 9
                status == IF tara \in {2, 4, 6, 8, 9} THEN "Good"
                          ELSE IF tara = 1 THEN "Average"
                          ELSE "Bad"
            IN [name |-> "Dina", status |-> status,
                steps |-> steps, count |-> count, tara |-> tara]

\* The narrative after "Distance from girl's rasi to boy's rasi is {distance}, "
RASI_COMMENT_FAVORABLE ==
    "which is favorable. This indicates friendship, similarity, mutual support, attraction, and domestic harmony."

RASI_COMMENT_UNFAVORABLE ==
    "which is unfavorable. This may indicate tension, ego clashes, or obstruction between partners."

\* the same sign is not special-cased
compute_rasi_porutham_no_full_circle(girl, boy) ==
    LET g_r == norm_rasi_name(girl.rasi)
        b_r == norm_rasi_name(boy.rasi)
    IN IF g_r \notin DOMAIN RASI_INDEX \/ b_r \notin DOMAIN RASI_INDEX
       THEN [name |-> "Rasi", status |-> "Unknown", comment |-> "not recognized"]
       ELSE LET g_idx == RASI_INDEX[g_r]
                b_idx == RASI_INDEX[b_r]
                distance == ((b_idx - g_idx) % 12) + 1
                favorable == {1, 3, 4, 7, 10, 11, 12}
                status == IF distance \in favorable THEN "Good" ELSE "Bad"
                \* the comment assigned inside the if branch
                comment_in_if == IF distance \in favorable
                                 THEN <<RASI_COMMENT_FAVORABLE>> ELSE <<>>
                \* the assignment after the else: it runs on both branches
                comment == RASI_COMMENT_UNFAVORABLE
            IN [name |-> "Rasi", status |-> status, comment |-> comment,
                distance |-> distance]

\* the unfavorable comment is assigned in the else branch only
compute_rasi_porutham_comment_in_else(girl, boy) ==
    LET g_r == norm_rasi_name(girl.rasi)
        b_r == norm_rasi_name(boy.rasi)
    IN IF g_r \notin DOMAIN RASI_INDEX \/ b_r \notin DOMAIN RASI_INDEX
       THEN [name |-> "Rasi", status |-> "Unknown", comment |-> "not recognized"]
       ELSE LET g_idx == RASI_INDEX[g_r]
                b_idx == RASI_INDEX[b_r]
                distance == IF g_idx = b_idx THEN 12
                            ELSE ((b_idx - g_idx) % 12) + 1
                favorable == {1, 3, 4, 7, 10, 11, 12}
                status == IF distance \in favorable THEN "Good" ELSE "Bad"
                \* the comment assigned inside the if branch
                comment_in_if == IF distance \in favorable
                                 THEN <<RASI_COMMENT_FAVORABLE>> ELSE <<>>
                \* the assignment indented into the else
                comment == IF comment_in_if # <<>> THEN comment_in_if[1]
                           ELSE RASI_COMMENT_UNFAVORABLE
            IN [name |-> "Rasi", status |-> status, comment |-> comment,
                distance |-> distance]

\* distance is the number the comment and the detail text report
compute_rasi_porutham(girl, boy) ==
    LET g_r == norm_rasi_name(girl.rasi)
        b_r == norm_rasi_name(boy.rasi)
    IN IF g_r \notin DOMAIN RASI_INDEX \/ b_r \notin DOMAIN RASI_INDEX
       THEN [name |-> "Rasi", status |-> "Unknown", comment |-> "not recognized"]
       ELSE LET g_idx == RASI_INDEX[g_r]
                b_idx == RASI_INDEX[b_r]
                distance == IF g_idx = b_idx THEN 12
                            ELSE ((b_idx - g_idx) % 12) + 1
                favorable == {1, 3, 4, 7, 10, 11, 12}
                status == IF distance \in favorable THEN "Good" ELSE "Bad"
                \* the comment assigned inside the if branch
                comment_in_if == IF distance \in favorable
                                 THEN <<RASI_COMMENT_FAVORABLE>> ELSE <<>>
                \* the assignment after the else: it runs on both branches
                comment == RASI_COMMENT_UNFAVORABLE
            IN [name |-> "Rasi", status |-> status, comment |-> comment,
                distance |-> distance]

\* only the girl's lord's view of the boy's lord is classified
compute_rasi_adhipati_porutham_one_sided(girl, boy) ==
    LET g_lord == DictGet(RASI_LORD, norm_rasi_name(girl.rasi))
        b_lord == DictGet(RASI_LORD, norm_rasi_name(boy.rasi))
    IN IF g_lord = <<>> \/ b_lord = <<>>
       THEN PoruthamResult("Rasi Adhipathi", "Unknown")
       ELSE LET rel == get_planet_relationship(g_lord[1], b_lord[1])
                g_to_b == rel[1]
                b_to_g == rel[2]
                status ==
                    IF g_to_b = "same" THEN "Very Good"
                    ELSE IF g_to_b = "friend" THEN "Very Good"
                    ELSE IF g_to_b = "neutral" THEN "Good"
                    ELSE "Bad"
            IN [name |-> "Rasi Adhipathi", status |-> status,
                g_lord |-> g_lord[1], b_lord |-> b_lord[1],
                g_to_b |-> g_to_b, b_to_g |-> b_to_g]

\* the lords and the two directed relations are the ones the detail text reports
compute_rasi_adhipati_porutham(girl, boy) ==
    LET g_lord == DictGet(RASI_LORD, norm_rasi_name(girl.rasi))
        b_lord == DictGet(RASI_LORD, norm_rasi_name(boy.rasi))
    IN IF g_lord = <<>> \/ b_lord = <<>>
       THEN PoruthamResult("Rasi Adhipathi", "Unknown")
       ELSE LET rel == get_planet_relationship(g_lord[1], b_lord[1])
                g_to_b == rel[1]
                b_to_g == rel[2]
                status ==
                    IF g_to_b = "same" THEN "Very Good"
                    ELSE IF g_to_b = "friend" /\ b_to_g = "friend" THEN "Very Good"
                    ELSE IF \/ (g_to_b = "friend" /\ b_to_g = "neutral")
                            \/ (g_to_b = "neutral" /\ b_to_g = "friend") THEN "Good"
                    ELSE IF g_to_b = "neutral" /\ b_to_g = "neutral" THEN "Good"
                    ELSE IF \/ (g_to_b = "neutral" /\ b_to_g = "enemy")
                            \/ (g_to_b = "enemy" /\ b_to_g = "neutral") THEN "Average"
                    ELSE IF \/ (g_to_b = "friend" /\ b_to_g = "enemy")
                            \/ (g_to_b = "enemy" /\ b_to_g = "friend") THEN "Average"
                    ELSE "Bad"
            IN [name |-> "Rasi Adhipathi", status |-> status,
                g_lord |-> g_lord[1], b_lord |-> b_lord[1],
                g_to_b |-> g_to_b, b_to_g |-> b_to_g]

\* the seventh star itself does not pass
compute_stree_dheergha_porutham_beyond_seven(girl, boy) ==
    LET g_idx == get_nak_index(girl.nakshatra)
        b_idx == get_nak_index(boy.nakshatra)
    IN IF ~g_idx.ok \/ ~b_idx.ok
       THEN PoruthamResult("Stree Dheergha", "Unknown")
       ELSE LET G0 == g_idx.val - 1
                B0 == b_idx.val - 1
                distance == (B0 - G0) % 27
                status == IF distance = 0 THEN "Bad"
                          ELSE IF distance > 7 THEN "Good"
                          ELSE "Bad"
            IN [name |-> "Stree Dheergha", status |-> status, distance |-> distance]

\* distance is the number the comment and the detail text report
compute_stree_dheergha_porutham(girl, boy) ==
    LET g_idx == get_nak_index(girl.nakshatra)
        b_idx == get_nak_index(boy.nakshatra)
    IN IF ~g_idx.ok \/ ~b_idx.ok
       THEN PoruthamResult("Stree Dheergha", "Unknown")
       ELSE LET G0 == g_idx.val - 1
                B0 == b_idx.val - 1
                distance == (B0 - G0) % 27
                status == IF distance = 0 THEN "Bad"
                          ELSE IF distance >= 7 THEN "Good"
                          ELSE "Bad"
            IN [name |-> "Stree Dheergha", status |-> status, distance |-> distance]

compute_vasya_porutham(girl, boy) ==
    PoruthamResult("Vasya", get_vasya_compatibility(girl.rasi, boy.rasi))

\* the count runs from the boy's star to the girl's star
compute_mahendra_porutham_from_boy(girl, boy) ==
    LET g_idx == get_nak_index(girl.nakshatra)
        b_idx == get_nak_index(boy.nakshatra)
    IN IF ~g_idx.ok \/ ~b_idx.ok
       THEN PoruthamResult("Mahendra", "Unknown")
       ELSE LET steps == ((g_idx.val - 1) - (b_idx.val - 1)) % 27
                count == steps + 1
                good_counts == {4, 7, 10, 13, 16, 19, 22, 25}
                status == IF count \in good_counts THEN "Good" ELSE "Bad"
            IN [name |-> "Mahendra", status |-> status, count |-> count]

\* count is the number the comment and the detail text report
compute_mahendra_porutham(girl, boy) ==
    LET g_idx == get_nak_index(girl.nakshatra)
        b_idx == get_nak_index(boy.nakshatra)
    IN IF ~g_idx.ok \/ ~b_idx.ok
       THEN PoruthamResult("Mahendra", "Unknown")
       ELSE LET steps == ((b_idx.val - 1) - (g_idx.val - 1)) % 27
                count == steps + 1
                good_counts == {4, 7, 10, 13, 16, 19, 22, 25}
                status == IF count \in good_counts THEN "Good" ELSE "Bad"
            IN [name |-> "Mahendra", status |-> status, count |-> count]

compute_vedha_porutham(girl, boy) ==
    LET has_v == nakshatra_has_vedha(girl.nakshatra, boy.nakshatra)
    IN IF has_v THEN PoruthamResult("Vedha", "Bad")
       ELSE PoruthamResult("Vedha", "Good")

\* the results grouped by basis: the nakshatra-based ones first
compute_poruthams_by_basis(girl, boy) ==
    << compute_dina_porutham(girl, boy),
       compute_gana_porutham(girl, boy),
       compute_yoni_porutham(girl, boy),
       compute_stree_dheergha_porutham(girl, boy),
       compute_mahendra_porutham(girl, boy),
       compute_rajju_porutham(girl, boy),
       compute_vedha_porutham(girl, boy),
       compute_rasi_porutham(girl, boy),
       compute_rasi_adhipati_porutham(girl, boy),
       compute_vasya_porutham(girl, boy) >>

compute_poruthams(girl, boy) ==
    << compute_dina_porutham(girl, boy),
       compute_gana_porutham(girl, boy),
       compute_yoni_porutham(girl, boy),
       compute_rasi_porutham(girl, boy),
       compute_rasi_adhipati_porutham(girl, boy),
       compute_stree_dheergha_porutham(girl, boy),
       compute_vasya_porutham(girl, boy),
       compute_mahendra_porutham(girl, boy),
       compute_rajju_porutham(girl, boy),
       compute_vedha_porutham(girl, boy) >>

(***************************************************************************)
(* Scoring.  Grades are in hundredths, scores in thousandths of a point.   *)
(***************************************************************************)

\* "good" is tested before "very good"
score_porutham_status_good_first(status) ==
    LET s == str_lower(status) IN
    IF Contains("good", s) THEN 85
    ELSE IF Contains("very good", s) THEN 100
    ELSE IF Contains("safe", s) \/ Contains("acceptable", s) THEN 80
    ELSE IF Contains("neutral", s) \/ Contains("average", s) \/ Contains("weak", s) THEN 60
    ELSE IF Contains("not present", s) \/ Contains("unknown", s) THEN 50
    ELSE IF Contains("bad", s) \/ Contains("enemy", s) \/ Contains("not acceptable", s) THEN 20
    ELSE 60

\* "excellent" is a keyword of the top grade
score_porutham_status_with_excellent(status) ==
    LET s == str_lower(status) IN
    IF Contains("very good", s) \/ Contains("excellent", s) THEN 100
    ELSE IF Contains("good", s) THEN 85
    ELSE IF Contains("safe", s) \/ Contains("acceptable", s) THEN 80
    ELSE IF Contains("neutral", s) \/ Contains("average", s) \/ Contains("weak", s) THEN 60
    ELSE IF Contains("not present", s) \/ Contains("unknown", s) THEN 50
    ELSE IF Contains("bad", s) \/ Contains("enemy", s) \/ Contains("not acceptable", s) THEN 20
    ELSE 60

score_porutham_status(status) ==
    LET s == str_lower(status) IN
    IF Contains("very good", s) THEN 100
    ELSE IF Contains("good", s) THEN 85
    ELSE IF Contains("safe", s) \/ Contains("acceptable", s) THEN 80
    ELSE IF Contains("neutral", s) \/ Contains("average", s) \/ Contains("weak", s) THEN 60
    ELSE IF Contains("not present", s) \/ Contains("unknown", s) THEN 50
    ELSE IF Contains("bad", s) \/ Contains("enemy", s) \/ Contains("not acceptable", s) THEN 20
    ELSE 60

\* any(p.name.lower() == name and "bad" in p.status.lower() for p in poruthams)
HasBadNamed(poruthams, name) ==
    \E i \in DOMAIN poruthams :
        /\ str_lower(poruthams[i].name) = name
        /\ Contains("bad", str_lower(poruthams[i].status))

\* step 1 of compute_score: the mean grade times 6
porutham_score(poruthams) ==
    LET grades == [i \in DOMAIN poruthams |-> score_porutham_status(poruthams[i].status)]
    IN IF Len(poruthams) > 0
       THEN (SumOver(DOMAIN poruthams, grades) * 60) \div Len(poruthams)
       ELSE 3600

\* the papasamya tiers shifted by one: 0, below 2, below 4
base_total_strict_tiers(papasamya, manglik, poruthams) ==
    LET d == papasamya.difference
        pap_score == IF d = 0 THEN 2000
                     ELSE IF d < 2 THEN 1500
                     ELSE IF d < 4 THEN 700
                     ELSE 200
        mang_score ==
            IF \/ (manglik.girl_manglik /\ manglik.boy_manglik)
               \/ (~manglik.girl_manglik /\ ~manglik.boy_manglik)
            THEN 2000
            ELSE 1000
    IN porutham_score(poruthams) + pap_score + mang_score

\* steps 1-3 of compute_score: porutham_score + pap_score + mang_score
base_total(papasamya, manglik, poruthams) ==
    LET d == papasamya.difference
        pap_score == IF d = 0 THEN 2000
                     ELSE IF d <= 2 THEN 1500
                     ELSE IF d <= 4 THEN 700
                     ELSE 200
        mang_score ==
            IF \/ (manglik.girl_manglik /\ manglik.boy_manglik)
               \/ (~manglik.girl_manglik /\ ~manglik.boy_manglik)
            THEN 2000
            ELSE 1000
    IN porutham_score(poruthams) + pap_score + mang_score

\* the caps without the Rajju cap
apply_caps_no_rajju(total, has_rajju_dosha, d, unbalanced_manglik, has_vedha_block) ==
    LET total2 == IF d > 2 THEN Min(total, 5000) ELSE total
        total3 == IF unbalanced_manglik THEN Min(total2, 6000) ELSE total2
    IN IF has_vedha_block THEN Min(total3, 5500) ELSE total3

\* each cap assigns its value instead of taking the minimum
apply_caps_assign(total, has_rajju_dosha, d, unbalanced_manglik, has_vedha_block) ==
    LET total1 == IF has_rajju_dosha THEN 4500 ELSE total
        total2 == IF d > 2 THEN 5000 ELSE total1
        total3 == IF unbalanced_manglik THEN 6000 ELSE total2
    IN IF has_vedha_block THEN 5500 ELSE total3

\* the hard caps, applied one after the other
apply_caps(total, has_rajju_dosha, d, unbalanced_manglik, has_vedha_block) ==
    LET total1 == IF has_rajju_dosha THEN Min(total, 4500) ELSE total
        total2 == IF d > 2 THEN Min(total1, 5000) ELSE total1
        total3 == IF unbalanced_manglik THEN Min(total2, 6000) ELSE total2
    IN IF has_vedha_block THEN Min(total3, 5500) ELSE total3

\* the score reported out of 100 instead of out of 10
compute_score_percent(papasamya, manglik, poruthams) ==
    LET unbalanced_manglik ==
            \/ (manglik.girl_manglik /\ ~manglik.boy_manglik)
            \/ (manglik.boy_manglik /\ ~manglik.girl_manglik)
        total == apply_caps(base_total(papasamya, manglik, poruthams),
                            HasBadNamed(poruthams, "rajju"), papasamya.difference,
                            unbalanced_manglik, HasBadNamed(poruthams, "vedha"))
    IN Max(0, Min(100000, total * 10))

compute_score(papasamya, manglik, poruthams) ==
    LET has_rajju_dosha == HasBadNamed(poruthams, "rajju")
        has_vedha_block == HasBadNamed(poruthams, "vedha")
        unbalanced_manglik ==
            \/ (manglik.girl_manglik /\ ~manglik.boy_manglik)
            \/ (manglik.boy_manglik /\ ~manglik.girl_manglik)
        total == apply_caps(base_total(papasamya, manglik, poruthams),
                            has_rajju_dosha, papasamya.difference,
                            unbalanced_manglik, has_vedha_block)
    IN Max(0, Min(10000, total))

(***************************************************************************)
(* Overall match                                                           *)
(***************************************************************************)

\* next((p for p in poruthams if p.name.lower() == name), None)
FirstNamed(poruthams, name) ==
    LET hits == {i \in DOMAIN poruthams : str_lower(poruthams[i].name) = name} IN
    IF hits = {} THEN <<>>
    ELSE <<poruthams[CHOOSE i \in hits : \A j \in hits : i <= j]>>

LEVEL_RAJJU == "Traditional verdict: NOT RECOMMENDED as a marriage match due to Rajju dosha"
LEVEL_PAPASAMYA == "Traditional verdict: Borderline / often rejected in strict Kerala matching"
LEVEL_VEDHA == "Verdict: Match has an obstruction (Vedha)"
LEVEL_EXCELLENT == "Verdict: Excellent & safe match"
LEVEL_GOOD == "Verdict: Good & generally safe match"
LEVEL_AVERAGE == "Verdict: Average / workable match"
LEVEL_WEAK == "Verdict: Weak match"

\* the traditional verdict line: Rajju, then Papasamya, then Vedha, then the score
overall_level(has_rajju_dosha, d, has_vedha_block, score_estimate) ==
    IF has_rajju_dosha THEN LEVEL_RAJJU
    ELSE IF d > 2 THEN LEVEL_PAPASAMYA
    ELSE IF has_vedha_block THEN LEVEL_VEDHA
    ELSE IF score_estimate >= 8500 THEN LEVEL_EXCELLENT
    ELSE IF score_estimate >= 7000 THEN LEVEL_GOOD
    ELSE IF score_estimate >= 5500 THEN LEVEL_AVERAGE
    ELSE LEVEL_WEAK

\* the body of compute_overall_match once its three parts have been computed
overall_from_parts(papasamya, manglik, poruthams) ==
    LET rajju_result == FirstNamed(poruthams, "rajju")
        vedha_result == FirstNamed(poruthams, "vedha")
        has_rajju_dosha ==
            rajju_result # <<>> /\ Contains("bad", str_lower(rajju_result[1].status))
        has_vedha_block ==
            vedha_result # <<>> /\ ~Contains("safe", str_lower(vedha_result[1].status))
    IN Return([papasamya |-> papasamya,
               manglik |-> manglik,
               poruthams |-> poruthams,
               level |-> overall_level(has_rajju_dosha, papasamya.difference,
                                       has_vedha_block,
                                       compute_score(papasamya, manglik, poruthams)),
               score_estimate |-> compute_score(papasamya, manglik, poruthams)])

\* papasamya_match runs first; its exception leaves the function
overall_after_papasamya(papasamya, manglik, poruthams) ==
    IF ~papasamya.ok THEN papasamya
    ELSE overall_from_parts(papasamya.val, manglik, poruthams)

compute_overall_match(girl, boy) ==
    overall_after_papasamya(papasamya_match(girl, boy),
                            manglik_match(girl, boy),
                            compute_poruthams(girl, boy))

(***************************************************************************)
(* Individual analysis (career, wealth, life), scores in thousandths       *)
(***************************************************************************)

BENEFICS == {"Jupiter", "Venus", "Moon", "Mercury"}
MALEFICS == {"Saturn", "Mars", "Sun", "Rahu", "Ketu"}

\* round(x, 1): the nearest tenth, a tie going to the even tenth
round1(x) ==
    LET q == x \div 100
        r == x % 100
    IN IF r < 50 THEN q * 100
       ELSE IF r > 50 THEN (q + 1) * 100
       ELSE IF q % 2 = 0 THEN q * 100 ELSE (q + 1) * 100

\* rounding without the clamp
round_only(score) == round1(score)

\* max(3.5, min(9.0, score)) then round(score, 1)
clamp_round(score) == round1(Max(3500, Min(9000, score)))

\* sum of rule(planet, house) over the items of a house map
SumItems(m, rule(_, _)) == SumOver(DOMAIN m, [p \in DOMAIN m |-> rule(p, m[p])])

score_career(planets, d9, dasha_lord) ==
    LET r1(planet, house) ==
              (IF house \in {1, 4, 7, 10} /\ planet \in BENEFICS THEN 400 ELSE 0)
            - (IF house \in {1, 10} /\ planet \in MALEFICS THEN 300 ELSE 0)
        r2(planet, house) ==
            IF house = 10 THEN (IF planet \in BENEFICS THEN 700 ELSE 400) ELSE 0
        r3(planet, house) == IF house = 10 THEN 400 ELSE 0
        r4 == IF dasha_lord # <<>> /\ dasha_lord[1] \in DOMAIN planets
              THEN LET h == planets[dasha_lord[1]] IN
                     (IF h \in {1, 4, 5, 7, 9, 10} THEN 500 ELSE 0)
                   - (IF h \in {6, 8, 12} THEN 700 ELSE 0)
              ELSE 0
        r5(planet, house) ==
            IF planet \in {"Saturn", "Rahu"} /\ house \in {8, 12} THEN -600 ELSE 0
    IN clamp_round(5000 + SumItems(planets, r1) + SumItems(planets, r2)
                        + SumItems(d9, r3) + r4 + SumItems(planets, r5))

score_wealth(planets, dasha_lord) ==
    LET r1(planet, house) ==
              (IF planet \in BENEFICS /\ house \in {2, 5, 9, 11} THEN 500 ELSE 0)
            + (IF planet = "Moon" /\ house \in {2, 11} THEN 400 ELSE 0)
        support == {"Venus", "Jupiter", "Moon"}
        r2 == 300 * Cardinality({p \in support :
                        InHouses(planets, p, {1, 2, 4, 5, 7, 9, 10, 11})})
        r3(planet, house) ==
            IF house \in {2, 11} /\ planet \in MALEFICS THEN -400 ELSE 0
        r4 ==   (IF dasha_lord # <<>> /\ dasha_lord[1] \in support THEN 300 ELSE 0)
              - (IF /\ dasha_lord # <<>>
                    /\ InHouses(planets, dasha_lord[1], {6, 8, 12})
                 THEN 500 ELSE 0)
        r5(planet, house) ==
            IF planet \in {"Saturn", "Rahu"} /\ house = 8 THEN -500 ELSE 0
    IN clamp_round(5000 + SumItems(planets, r1) + r2 + SumItems(planets, r3)
                        + r4 + SumItems(planets, r5))

score_overall(planets, dasha_lord) ==
    LET r1(planet, house) ==
              (IF house = 1 /\ planet \in BENEFICS THEN 600 ELSE 0)
            + (IF house = 1 /\ planet \in MALEFICS THEN 100 ELSE 0)
        r2 == 600 * Cardinality({p \in {"Jupiter", "Venus"} :
                        InHouses(planets, p, {1, 4, 7, 10, 5, 9})})
        r3(planet, house) ==
            IF planet \in MALEFICS /\ house \in {6, 8, 12} THEN -500 ELSE 0
        r4 == IF dasha_lord = <<"Jupiter">> THEN 400
              ELSE IF dasha_lord = <<"Venus">> THEN 400
              ELSE IF dasha_lord = <<"Moon">>
                   THEN (IF "Moon" \in DOMAIN planets /\ planets["Moon"] \notin {6, 8, 12}
                         THEN 200 ELSE -200)
              ELSE IF dasha_lord = <<"Saturn">> THEN -300
              ELSE 0
    IN clamp_round(5000 + SumItems(planets, r1) + r2 + SumItems(planets, r3) + r4)

career_label(s) ==
    IF s >= 8000 THEN "Strong career potential (good long-term growth)"
    ELSE IF s >= 6000 THEN "Good/steady career potential"
    ELSE IF s >= 4000 THEN "Average, requires effort and right choices"
    ELSE "Challenging career pattern"

wealth_label(s) ==
    IF s >= 7500 THEN "Exceptional / very strong wealth potential"
    ELSE IF s >= 6000 THEN "Strong wealth potential"
    ELSE IF s >= 4500 THEN "Good financial potential over time"
    ELSE IF s >= 3000 THEN "Average, finances depend heavily on choices"
    ELSE "Financial pattern requires care"

life_label(s) ==
    IF s >= 8000 THEN "Overall life pattern looks strong with good growth potential."
    ELSE IF s >= 6000 THEN "Overall life pattern is good, with normal ups and downs."
    ELSE IF s >= 4000 THEN "Mixed life pattern - some good areas, some lessons."
    ELSE "Challenging life pattern - needs conscious effort."

analyze_individual(person) ==
    LET planets == person.planets_from_lagna
        d9 == person.navamsa_planets_from_lagna
        current_dasha_raw == person.current_dasha
        \* current_dasha_raw.split()[0] if current_dasha_raw else None
        dasha_lord == IF current_dasha_raw = "" THEN <<>>
                      ELSE <<FirstToken(current_dasha_raw)>>
        career == score_career(planets, d9, dasha_lord)
        wealth == score_wealth(planets, dasha_lord)
        overall == score_overall(planets, dasha_lord)
    IN IF current_dasha_raw # "" /\ FirstNonBlank(current_dasha_raw) = 0
       THEN Raise("IndexError", "list index out of range")
       ELSE Return([career_score |-> career, career_label |-> career_label(career),
                    wealth_score |-> wealth, wealth_label |-> wealth_label(wealth),
                    life_score |-> overall, life_label |-> life_label(overall)])

(***************************************************************************)
(* Bounded inputs                                                          *)
(***************************************************************************)

MaxStride == 6
MaxPairStride == 1
MaxDiff == 5
MaxVeryGood == 8

HOUSES == 1..12

PLANET_LIST ==
    <<"Sun", "Moon", "Mars", "Mercury", "Jupiter", "Venus", "Saturn", "Rahu", "Ketu">>

\* Spellings used as table keys that are not canonical names.
NAK_ALIASES ==
    (DOMAIN YONI_BY_NAK \cup DOMAIN GANA_BY_NAK \cup DOMAIN VEDHA_PAIRS)
        \ Range(NAK_ORDER)

\* Free-text spellings: resolving in no table, or decorated.
OtherNakTexts ==
    {"", "Zeta", "Purva Phalguni", "UTTARA-PHALGUNI", " Moola ", "Purva_Bhadrapada"}

NakTexts == Range(NAKSHATRA_OPTIONS) \cup NAK_ALIASES \cup OtherNakTexts

RasiTexts ==
    Range(RASI_OPTIONS) \cup DOMAIN norm_rasi_aliases \cup {"", "Ophiuchus", "Thulam", " KUMBHA "}

\* A house map with the nine bodies: Moon in house m, the others on an
\* arithmetic progression of houses starting at k+1 with stride s.
Layout(k, s, m) ==
    [p \in Range(PLANET_LIST) |->
        IF p = "Moon" THEN m
        ELSE (((k + (IndexOf(PLANET_LIST, p) - 1) * s) % 12) + 1)]

Without(m, body) == [p \in DOMAIN m \ {body} |-> m[p]]

FullMaps == {Layout(k, s, m) : k \in 0..11, s \in 0..MaxStride, m \in HOUSES}

PartialMaps ==
    {Without(Layout(k, 1, m), b) : k \in 0..11, m \in {1, 8}, b \in {"Moon", "Venus", "Mars"}}

\* A house map that also holds a body outside PLANET_LIST.
WithBody(m, body, house) == (body :> house) @@ m

ExtraBodyMaps ==
    {WithBody(m, "Pluto", h) : m \in {Layout(0, 1, 1), Layout(2, 0, 5)}, h \in HOUSES}

PersonMaps == FullMaps \cup PartialMaps \cup ExtraBodyMaps

PairMaps ==
    {Layout(k, s, m) : k \in 0..11, s \in 0..MaxPairStride, m \in {1, 6}}
        \cup {Without(Layout(0, 1, 1), b) : b \in {"Moon", "Venus", "Mars"}}
        \cup {WithBody(Layout(0, 1, 1), "Pluto", h) : h \in {1, 10}}

\* House maps for the Mars check: Mars in each of the twelve houses, Mars
\* missing, and an empty map.
MarsMaps ==
    {Layout(k, 1, 1) : k \in 0..11} \cup {Without(Layout(0, 1, 1), "Mars"), <<>>}

\* House maps that collect the wealth deductions: malefics in the second or
\* eleventh house, Saturn and Rahu in the eighth, the benefics in a house
\* without a bonus.
AfflictedMaps ==
    { [p \in Range(PLANET_LIST) |->
          IF p \in {"Sun", "Mars", "Ketu"} THEN 2
          ELSE IF p \in {"Saturn", "Rahu"} THEN 8
          ELSE 6],
      [p \in Range(PLANET_LIST) |->
          IF p \in {"Sun", "Mars", "Ketu", "Saturn", "Rahu"} THEN 11 ELSE 3] }

NavamsaMaps ==
    { <<>>, Layout(9, 0, 10), Layout(0, 1, 1),
      WithBody(<<>>, "Pluto", 10), WithBody(Layout(0, 1, 1), "Pluto", 3) }

DashaTexts ==
    {"", " ", "Saturn (till 2026)", "Jupiter", "Venus 2030", " Moon", "Rahu", "Pluto"}

\* A PersonChart: the fields the core reads.
PersonChart(rasi, nakshatra, current_dasha, planets, d9) ==
    [rasi |-> rasi, nakshatra |-> nakshatra, current_dasha |-> current_dasha,
     planets_from_lagna |-> planets, navamsa_planets_from_lagna |-> d9]

ChartWithStar(nakshatra) == PersonChart("Mesha", nakshatra, "", <<>>, <<>>)
ChartWithRasi(rasi) == PersonChart(rasi, "Ashwini", "", <<>>, <<>>)
ChartWithPlanets(planets) == PersonChart("Mesha", "Ashwini", "", planets, <<>>)

MatchNaks == {"Ashwini", "Jyeshta", "Rohini", "Hasta", "Dhanishta", "Revati", "mula", "Zeta"}
MatchRasis == {"Mesha", "Libra", "Ophiuchus"}
MatchMaps ==
    {Layout(0, 0, 1), Layout(4, 1, 9),
     Without(Layout(0, 1, 1), "Moon"), Without(Layout(0, 1, 1), "Venus"),
     WithBody(Layout(4, 1, 9), "Pluto", 1)}

MatchPeople ==
    {PersonChart(r, n, "", m, <<>>) : r \in MatchRasis, n \in MatchNaks, m \in MatchMaps}

\* Charts for compute_poruthams: every canonical star, the rasis taken in
\* turn, and a chart whose star and rasi resolve nowhere.
PoruthamPeople ==
    {PersonChart(RASI_OPTIONS[((i - 1) % 12) + 1], NAKSHATRA_OPTIONS[i], "", <<>>, <<>>) :
        i \in 1..27}
        \cup {PersonChart("Ophiuchus", "Zeta", "", <<>>, <<>>)}

\* The statuses the ten evaluators emit.
STATUSES ==
    {"Very Good", "Good", "SAFE", "Acceptable", "Neutral", "Average", "Unknown",
     "Bad", "Excellent", "OK", "Not Preferred"}

\* Status texts handed to score_porutham_status: the emitted ones and texts
\* holding the other keywords.
StatusTexts ==
    STATUSES \cup {"", "VERY GOOD", "Weak", "Not Present", "Enemy", "Not acceptable",
                   "Very Bad", "Safe (good)", "Mixed"}

PORUTHAM_NAMES ==
    <<"Dina", "Gana", "Yoni", "Rasi", "Rasi Adhipathi", "Stree Dheergha",
      "Vasya", "Mahendra", "Rajju", "Vedha">>

\* Ten results: the first n of the eight ordinary ones Very Good, the rest
\* with status a, then Rajju and Vedha as given.
TenResults(n, a, rajju, vedha) ==
    [i \in 1..10 |->
        PoruthamResult(PORUTHAM_NAMES[i],
            IF i = 9 THEN rajju
            ELSE IF i = 10 THEN vedha
            ELSE IF i <= n THEN "Very Good" ELSE a)]

(***************************************************************************)
(* State machine: a process makes one call of the library                  *)
(***************************************************************************)

Init ==
    /\ op = "start"
    /\ arg = <<>>
    /\ ret = <<>>

Idle == op = "start"

Call(name, a, r) ==
    /\ op' = name
    /\ arg' = a
    /\ ret' = r

NormNakName ==
    /\ Idle
    /\ \E name \in NakTexts :
        Call("norm_nak_name", [name |-> name], Return(norm_nak_name(name)))

GetNakIndex ==
    /\ Idle
    /\ \E name \in NakTexts :
        Call("get_nak_index", [nakshatra |-> name], get_nak_index(name))

DerivePositions ==
    /\ Idle
    /\ \E m \in PairMaps, ref \in Range(PLANET_LIST) \cup {"Lagna"} :
        LET call == derive_positions_call(m, ref) IN
        Call("derive_positions_from_reference",
             [planets_from_lagna |-> m, reference_planet |-> ref,
              planets_from_lagna_after |-> call.planets_from_lagna],
             call.ret)

PapasamyaForPerson ==
    /\ Idle
    /\ \E m \in PersonMaps :
        Call("compute_papasamya_for_person", [person |-> ChartWithPlanets(m)],
             compute_papasamya_for_person(ChartWithPlanets(m)))

PapasamyaMatch ==
    /\ Idle
    /\ \E g \in PairMaps, b \in PairMaps :
        Call("papasamya_match", [girl |-> ChartWithPlanets(g), boy |-> ChartWithPlanets(b)],
             papasamya_match(ChartWithPlanets(g), ChartWithPlanets(b)))

ManglikMatch ==
    /\ Idle
    /\ \E g \in MarsMaps, b \in MarsMaps :
        Call("manglik_match", [girl |-> ChartWithPlanets(g), boy |-> ChartWithPlanets(b)],
             Return(manglik_match(ChartWithPlanets(g), ChartWithPlanets(b))))

Dina ==
    /\ Idle
    /\ \E g \in NakTexts, b \in NakTexts :
        Call("compute_dina_porutham", [girl |-> ChartWithStar(g), boy |-> ChartWithStar(b)],
             Return(compute_dina_porutham(ChartWithStar(g), ChartWithStar(b))))

Gana ==
    /\ Idle
    /\ \E g \in NakTexts, b \in NakTexts :
        Call("compute_gana_porutham", [girl |-> ChartWithStar(g), boy |-> ChartWithStar(b)],
             Return(compute_gana_porutham(ChartWithStar(g), ChartWithStar(b))))

Yoni ==
    /\ Idle
    /\ \E g \in NakTexts, b \in NakTexts :
        Call("compute_yoni_porutham", [girl |-> ChartWithStar(g), boy |-> ChartWithStar(b)],
             Return(compute_yoni_porutham(ChartWithStar(g), ChartWithStar(b))))

Rasi ==
    /\ Idle
    /\ \E g \in RasiTexts, b \in RasiTexts :
        Call("compute_rasi_porutham", [girl |-> ChartWithRasi(g), boy |-> ChartWithRasi(b)],
             Return(compute_rasi_porutham(ChartWithRasi(g), ChartWithRasi(b))))

RasiAdhipati ==
    /\ Idle
    /\ \E g \in RasiTexts, b \in RasiTexts :
        Call("compute_rasi_adhipati_porutham", [girl |-> ChartWithRasi(g), boy |-> ChartWithRasi(b)],
             Return(compute_rasi_adhipati_porutham(ChartWithRasi(g), ChartWithRasi(b))))

StreeDheergha ==
    /\ Idle
    /\ \E g \in NakTexts, b \in NakTexts :
        Call("compute_stree_dheergha_porutham", [girl |-> ChartWithStar(g), boy |-> ChartWithStar(b)],
             Return(compute_stree_dheergha_porutham(ChartWithStar(g), ChartWithStar(b))))

Vasya ==
    /\ Idle
    /\ \E g \in RasiTexts, b \in RasiTexts :
        Call("compute_vasya_porutham", [girl |-> ChartWithRasi(g), boy |-> ChartWithRasi(b)],
             Return(compute_vasya_porutham(ChartWithRasi(g), ChartWithRasi(b))))

Mahendra ==
    /\ Idle
    /\ \E g \in NakTexts, b \in NakTexts :
        Call("compute_mahendra_porutham", [girl |-> ChartWithStar(g), boy |-> ChartWithStar(b)],
             Return(compute_mahendra_porutham(ChartWithStar(g), ChartWithStar(b))))

Rajju ==
    /\ Idle
    /\ \E g \in NakTexts, b \in NakTexts :
        Call("compute_rajju_porutham", [girl |-> ChartWithStar(g), boy |-> ChartWithStar(b)],
             Return(compute_rajju_porutham(ChartWithStar(g), ChartWithStar(b))))

Vedha ==
    /\ Idle
    /\ \E g \in NakTexts, b \in NakTexts :
        Call("compute_vedha_porutham", [girl |-> ChartWithStar(g), boy |-> ChartWithStar(b)],
             Return(compute_vedha_porutham(ChartWithStar(g), ChartWithStar(b))))

ComputePoruthams ==
    /\ Idle
    /\ \E g \in PoruthamPeople, b \in PoruthamPeople :
        Call("compute_poruthams", [girl |-> g, boy |-> b], Return(compute_poruthams(g, b)))

ScorePoruthamStatus ==
    /\ Idle
    /\ \E status \in StatusTexts :
        Call("score_porutham_status", [status |-> status],
             Return(score_porutham_status(status)))

ComputeScore ==
    /\ Idle
    /\ \E n \in 0..MaxVeryGood, a \in STATUSES, rajju \in {"Bad", "SAFE", "Unknown"},
          vedha \in {"Good", "Bad"}, d \in 0..MaxDiff, gm \in BOOLEAN, bm \in BOOLEAN :
        LET papasamya == [difference |-> d]
            manglik == [girl_manglik |-> gm, boy_manglik |-> bm]
            poruthams == TenResults(n, a, rajju, vedha)
        IN Call("compute_score",
                [papasamya |-> papasamya, manglik |-> manglik, poruthams |-> poruthams],
                Return(compute_score(papasamya, manglik, poruthams)))

ComputeOverallMatch ==
    /\ Idle
    /\ \E g \in MatchPeople, b \in MatchPeople :
        Call("compute_overall_match", [girl |-> g, boy |-> b],
             compute_overall_match(g, b))

AnalyzeIndividual ==
    /\ Idle
    /\ \E m \in FullMaps \cup ExtraBodyMaps \cup AfflictedMaps,
          d9 \in NavamsaMaps, dasha \in DashaTexts :
        LET person == PersonChart("Mesha", "Ashwini", dasha, m, d9) IN
        Call("analyze_individual", [person |-> person], analyze_individual(person))

Next ==
    \/ NormNakName
    \/ GetNakIndex
    \/ DerivePositions
    \/ PapasamyaForPerson
    \/ PapasamyaMatch
    \/ ManglikMatch
    \/ Dina
    \/ Gana
    \/ Yoni
    \/ Rasi
    \/ RasiAdhipati
    \/ StreeDheergha
    \/ Vasya
    \/ Mahendra
    \/ Rajju
    \/ Vedha
    \/ ComputePoruthams
    \/ ScorePoruthamStatus
    \/ ComputeScore
    \/ ComputeOverallMatch
    \/ AnalyzeIndividual

Spec == Init /\ [][Next]_vars

(***************************************************************************)
(* Properties                                                              *)
(***************************************************************************)

StatusNamed(poruthams, name) ==
    poruthams[CHOOSE i \in DOMAIN poruthams : poruthams[i].name = name].status

HasMoonVenus(person) ==
    {"Moon", "Venus"} \subseteq DOMAIN person.planets_from_lagna

\* C1: whenever the result named Rajju has status Bad, compute_score returns
\* at most 4.5, whatever the other statuses, the difference and the flags are.
C1_RajjuBadCapsScore ==
    (op = "compute_score" /\ StatusNamed(arg.poruthams, "Rajju") = "Bad")
        => (ret.ok /\ ret.val <= 4500)

\* Rajju Bad with every other factor at its best: the cap is what decides.
C1_Witness ==
    /\ op = "compute_score"
    /\ StatusNamed(arg.poruthams, "Rajju") = "Bad"
    /\ \A i \in 1..8 : arg.poruthams[i].status = "Very Good"
    /\ arg.poruthams[10].status = "Good"
    /\ arg.papasamya.difference = 0
    /\ arg.manglik.girl_manglik = arg.manglik.boy_manglik
    /\ ret.val = 4500

\* C2: for charts that contain Moon and Venus, compute_overall_match returns
\* a score_estimate between 0 and 10.
C2_ScoreInRange ==
    (op = "compute_overall_match" /\ HasMoonVenus(arg.girl) /\ HasMoonVenus(arg.boy))
        => (ret.ok /\ ret.val.score_estimate >= 0 /\ ret.val.score_estimate <= 10000)

\* A match no cap applies to, scoring above every cap value.
C2_Witness ==
    /\ op = "compute_overall_match"
    /\ ret.ok
    /\ ret.val.score_estimate > 6000

ScoreBand(score) ==
    IF score >= 8500 THEN LEVEL_EXCELLENT
    ELSE IF score >= 7000 THEN LEVEL_GOOD
    ELSE IF score >= 5500 THEN LEVEL_AVERAGE
    ELSE LEVEL_WEAK

\* C3: the final verdict is cautionary exactly when Rajju is Bad, or the
\* papasamya difference exceeds 2, or Vedha is Bad; otherwise it is the band
\* of the score.
C3_VerdictBands ==
    (op = "compute_overall_match" /\ ret.ok) =>
        LET flagged == \/ StatusNamed(ret.val.poruthams, "Rajju") = "Bad"
                       \/ ret.val.papasamya.difference > 2
                       \/ StatusNamed(ret.val.poruthams, "Vedha") = "Bad"
        IN IF flagged
           THEN ret.val.level \in {LEVEL_RAJJU, LEVEL_PAPASAMYA, LEVEL_VEDHA}
           ELSE ret.val.level = ScoreBand(ret.val.score_estimate)

NakEvaluatorTable ==
    "compute_dina_porutham" :> Range(NAK_ORDER) @@
    "compute_stree_dheergha_porutham" :> Range(NAK_ORDER) @@
    "compute_mahendra_porutham" :> Range(NAK_ORDER) @@
    "compute_gana_porutham" :> DOMAIN GANA_BY_NAK @@
    "compute_yoni_porutham" :> DOMAIN YONI_BY_NAK @@
    "compute_rajju_porutham" :> DOMAIN RAJJU_BY_NAK @@
    "compute_vedha_porutham" :> DOMAIN VEDHA_PAIRS

RasiEvaluators ==
    {"compute_rasi_porutham", "compute_rasi_adhipati_porutham", "compute_vasya_porutham"}

\* The name the evaluator consumes resolves in the table the evaluator reads.
Resolves(evaluator, person) ==
    IF evaluator \in RasiEvaluators
    THEN norm_rasi_name(person.rasi) \in Range(RASI_CANON)
    ELSE norm_nak_name(person.nakshatra) \in NakEvaluatorTable[evaluator]

\* C4: each of the ten evaluators returns status Unknown, without raising,
\* when the name it consumes cannot be resolved for at least one chart.
C4_UnresolvedIsUnknown ==
    (/\ op \in DOMAIN NakEvaluatorTable \cup RasiEvaluators
     /\ (~Resolves(op, arg.girl) \/ ~Resolves(op, arg.boy)))
        => (ret.ok /\ ret.val.status = "Unknown")

CanonicalAndAliases == Range(NAK_ORDER) \cup NAK_ALIASES

\* C5: for every canonical nakshatra name and every alias spelling of the
\* reference tables, norm_nak_name is idempotent and get_nak_index returns an
\* index in 1..27 without failing.
C5_AliasesHaveIndex ==
    /\ (op = "norm_nak_name" /\ arg.name \in CanonicalAndAliases)
            => norm_nak_name(ret.val) = ret.val
    /\ (op = "get_nak_index" /\ arg.nakshatra \in CanonicalAndAliases)
            => (ret.ok /\ ret.val \in 1..27)

\* C6: Vedha is symmetric: exchanging girl and boy gives the same answer of
\* nakshatra_has_vedha and the same status of compute_vedha_porutham.
C6_VedhaSymmetric ==
    (op = "compute_vedha_porutham") =>
        /\ ret.val.status = compute_vedha_porutham(arg.boy, arg.girl).status
        /\ (ret.val.status = "Bad")
            = nakshatra_has_vedha(arg.boy.nakshatra, arg.girl.nakshatra)

\* A Vedha pair the table lists in one direction only.
C6_Witness ==
    /\ op = "compute_vedha_porutham"
    /\ ret.val.status = "Bad"
    /\ norm_nak_name(arg.boy.nakshatra) \in DOMAIN VEDHA_PAIRS
    /\ VEDHA_PAIRS[norm_nak_name(arg.boy.nakshatra)] # norm_nak_name(arg.girl.nakshatra)
    /\ norm_nak_name(arg.girl.nakshatra) \in Range(NAK_ORDER)

\* The house of a body seen from the lagna, the Moon or Venus.
ViewHouse(m, body, view) ==
    IF view = "Lagna" THEN m[body] ELSE ((m[body] - m[view]) % 12) + 1

PapamPairs(m) ==
    {bv \in {"Mars", "Saturn", "Sun", "Rahu"} \X {"Lagna", "Moon", "Venus"} :
        bv[1] \in DOMAIN m /\ ViewHouse(m, bv[1], bv[2]) \in {1, 2, 4, 7, 8, 12}}

\* C7: for a chart with Moon and Venus, compute_papasamya_for_person returns
\* the number of (body, viewpoint) pairs, body among Mars, Saturn, Sun, Rahu
\* and viewpoint among Lagna, Moon, Venus, whose house is a papam house; the
\* total is in 0..12 and Ketu, Jupiter and Mercury do not count.
C7_PapasamyaCount ==
    (op = "compute_papasamya_for_person" /\ HasMoonVenus(arg.person)) =>
        /\ ret.ok
        /\ ret.val = Cardinality(PapamPairs(arg.person.planets_from_lagna))
        /\ ret.val \in 0..12

\* The maximal total, with Ketu, Jupiter and Mercury in papam houses too.
C7_Witness ==
    /\ op = "compute_papasamya_for_person"
    /\ ret.ok
    /\ ret.val = 12
    /\ \A p \in {"Ketu", "Jupiter", "Mercury"} :
            arg.person.planets_from_lagna[p] \in PAPAM_HOUSES

Tier(d) == IF d = 0 THEN "Excellent" ELSE IF d <= 2 THEN "Acceptable" ELSE "Not acceptable"

\* C8: papasamya_match gives the same difference and the same verdict in both
\* orders; the difference is the absolute difference of the totals, in 0..12,
\* and the verdict is the tier of the difference.
C8_PapasamyaSymmetric ==
    (op = "papasamya_match" /\ ret.ok) =>
        LET swapped == papasamya_match(arg.boy, arg.girl) IN
        /\ swapped.ok
        /\ swapped.val.difference = ret.val.difference
        /\ swapped.val.verdict = ret.val.verdict
        /\ ret.val.difference \in 0..12
        /\ ret.val.difference = Abs(ret.val.girl_total - ret.val.boy_total)
        /\ SubSeq(ret.val.verdict, 1, Len(Tier(ret.val.difference)))
                = Tier(ret.val.difference)

\* The girl's total is the smaller one and the difference is too high.
C8_Witness ==
    /\ op = "papasamya_match"
    /\ ret.ok
    /\ ret.val.girl_total < ret.val.boy_total
    /\ ret.val.difference > 2

LacksMoonOrVenus(person) == ~HasMoonVenus(person)

\* C9: when Moon or Venus is absent from a lagna house map the deriver fails
\* with ValueError, and the error propagates through
\* compute_papasamya_for_person, papasamya_match and compute_overall_match:
\* none of them returns a result.
C9_MissingReferencePropagates ==
    /\ (/\ op = "derive_positions_from_reference"
        /\ arg.reference_planet \notin DOMAIN arg.planets_from_lagna)
            => (~ret.ok /\ ret.exc = "ValueError")
    /\ (op = "compute_papasamya_for_person" /\ LacksMoonOrVenus(arg.person))
            => (~ret.ok /\ ret.exc = "ValueError")
    /\ (/\ op \in {"papasamya_match", "compute_overall_match"}
        /\ (LacksMoonOrVenus(arg.girl) \/ LacksMoonOrVenus(arg.boy)))
            => (~ret.ok /\ ret.exc = "ValueError")

\* The girl's chart is complete, the boy's chart has Moon but no Venus, and
\* the whole match fails.
C9_Witness ==
    /\ op = "compute_overall_match"
    /\ HasMoonVenus(arg.girl)
    /\ "Venus" \notin DOMAIN arg.boy.planets_from_lagna
    /\ "Moon" \in DOMAIN arg.boy.planets_from_lagna
    /\ ~ret.ok

InBand(score) == score >= 3500 /\ score <= 9000 /\ score % 100 = 0

\* C10: the career, wealth and life scores analyze_individual returns are
\* each in [3.5, 9.0] and multiples of 0.1.
C10_IndividualScoresInBand ==
    (op = "analyze_individual" /\ ret.ok) =>
        /\ InBand(ret.val.career_score)
        /\ InBand(ret.val.wealth_score)
        /\ InBand(ret.val.life_score)

\* All nine bodies in the tenth house: the career rules add up to more than
\* 9.0 and the returned career score is the upper end of the band.
C10_Witness ==
    /\ op = "analyze_individual"
    /\ ret.ok
    /\ \A p \in DOMAIN arg.person.planets_from_lagna :
            arg.person.planets_from_lagna[p] = 10
    /\ ret.val.career_score = 9000

\* 1-based position of a chart's nakshatra in the canonical order
CanonicalIndex(person) == IndexOf(NAK_ORDER, norm_nak_name(person.nakshatra))

IsCanonicalNak(person) == person.nakshatra \in Range(NAKSHATRA_OPTIONS)

C12_MahendraCount ==
    (op = "compute_mahendra_porutham" /\ IsCanonicalNak(arg.girl) /\ IsCanonicalNak(arg.boy)) =>
        LET g0 == CanonicalIndex(arg.girl) - 1
            b0 == CanonicalIndex(arg.boy) - 1
            r == ret.val
        IN /\ r.count = ((b0 - g0) % 27) + 1
           /\ r.count \in 1..27
           /\ r.status = (IF r.count \in {4, 7, 10, 13, 16, 19, 22, 25} THEN "Good" ELSE "Bad")
           /\ (arg.girl.nakshatra = "Ashwini" /\ arg.boy.nakshatra = "Rohini")
                => (r.count = 4 /\ r.status = "Good")
           /\ (arg.girl.nakshatra = arg.boy.nakshatra)
                => (r.count = 1 /\ r.status = "Bad")

\* The boy's star comes before the girl's star in the order and the count,
\* taken around the end, is a good one.
C12_Witness ==
    /\ op = "compute_mahendra_porutham"
    /\ arg.girl.nakshatra = "Revati"
    /\ arg.boy.nakshatra = "Krittika"
    /\ ret.val.count = 4
    /\ ret.val.status = "Good"


\* The Rajju groups that list a nakshatra, read from RAJJU_GROUPS itself.
RajjuGroupsOf(nakshatra) ==
    {g \in DOMAIN RAJJU_GROUPS :
        \E n \in Range(RAJJU_GROUPS[g].nakshatras) :
            norm_nak_name(n) = norm_nak_name(nakshatra)}

\* C13: for nakshatras that both resolve in the Rajju table,
\* compute_rajju_porutham returns Bad exactly when the two belong to the same
\* one of the five groups and SAFE exactly when they belong to different
\* groups; every canonical nakshatra belongs to exactly one group, so two
\* identical nakshatras give Bad.
C13_RajjuSameGroup ==
    (op = "compute_rajju_porutham") =>
        LET g_groups == RajjuGroupsOf(arg.girl.nakshatra)
            b_groups == RajjuGroupsOf(arg.boy.nakshatra)
        IN /\ DOMAIN RAJJU_GROUPS = {"Siro", "Kanta", "Nabhi", "Kati", "Pada"}
           /\ IsCanonicalNak(arg.girl) => Cardinality(g_groups) = 1
           /\ IsCanonicalNak(arg.boy) => Cardinality(b_groups) = 1
           /\ (g_groups # {} /\ b_groups # {}) =>
                /\ ret.ok
                /\ (ret.val.status = "Bad") = (g_groups = b_groups)
                /\ (ret.val.status = "SAFE") = (g_groups # b_groups)
                /\ (norm_nak_name(arg.girl.nakshatra) = norm_nak_name(arg.boy.nakshatra))
                     => ret.val.status = "Bad"

\* Two different stars of the Pada group.
C13_Witness ==
    /\ op = "compute_rajju_porutham"
    /\ arg.girl.nakshatra = "Ashwini"
    /\ arg.boy.nakshatra = "Revati"
    /\ RajjuGroupsOf("Ashwini") = {"Pada"}
    /\ RajjuGroupsOf("Revati") = {"Pada"}
    /\ ret.val.status = "Bad"


\* C14: for a house map with values in 1..12 and a reference body that is a
\* key of the map, derive_positions_from_reference returns a map with the same
\* keys in which each body P has house ((house(P) - house(ref)) mod 12) + 1;
\* every output value is in 1..12, the reference body is in house 1, and the
\* input map is left unchanged.
C14_DerivedPositions ==
    (/\ op = "derive_positions_from_reference"
     /\ arg.reference_planet \in DOMAIN arg.planets_from_lagna) =>
        LET m == arg.planets_from_lagna
            ref == arg.reference_planet
        IN /\ ret.ok
           /\ DOMAIN ret.val = DOMAIN m
           /\ \A p \in DOMAIN m :
                /\ ret.val[p] = ((m[p] - m[ref]) % 12) + 1
                /\ ret.val[p] \in 1..12
           /\ ret.val[ref] = 1
           /\ arg.planets_from_lagna_after = m

\* A map without the Moon, read from Venus: Mars is three houses behind the
\* reference, the difference is negative and the derived house is the tenth.
C14_Witness ==
    /\ op = "derive_positions_from_reference"
    /\ arg.reference_planet = "Venus"
    /\ ret.ok
    /\ "Moon" \notin DOMAIN ret.val
    /\ arg.planets_from_lagna["Mars"] - arg.planets_from_lagna["Venus"] = -3
    /\ ret.val["Mars"] = 10

\* The four caps of a call of compute_score, each decided from the inputs.
CapsOf(a) ==
    << [applies |-> StatusNamed(a.poruthams, "Rajju") = "Bad", cap |-> 4500],
       [applies |-> a.papasamya.difference > 2, cap |-> 5000],
       [applies |-> a.manglik.girl_manglik # a.manglik.boy_manglik, cap |-> 6000],
       [applies |-> StatusNamed(a.poruthams, "Vedha") = "Bad", cap |-> 5500] >>

\* The caps applied one after the other in the given order.
CapsInOrder(total, caps, order) ==
    LET F[i \in 0..Len(caps)] ==
            IF i = 0 THEN total
            ELSE IF caps[order[i]].applies THEN Min(F[i-1], caps[order[i]].cap)
            ELSE F[i-1]
    IN F[Len(caps)]

Clamp10(total) == Max(0, Min(10000, total))

\* C15: the score compute_score returns is the minimum of the uncapped base
\* and every applicable cap (4.5 Rajju Bad, 5.0 papasamya difference above 2,
\* 6.0 exactly one chart manglik, 5.5 Vedha Bad), clamped to [0,10]; the cap
\* conditions depend on the inputs only, and applying the four caps in any
\* order gives the same score.
C15_CapsAreMinimum ==
    (op = "compute_score") =>
        LET base == base_total(arg.papasamya, arg.manglik, arg.poruthams)
            caps == CapsOf(arg)
            bounds == {base} \cup {caps[i].cap : i \in {j \in 1..4 : caps[j].applies}}
            least == CHOOSE x \in bounds : \A y \in bounds : x <= y
        IN /\ ret.ok
           /\ ret.val = Clamp10(least)
           /\ \A order \in Permutations(1..4) :
                Clamp10(CapsInOrder(base, caps, order)) = ret.val

\* All four caps apply to a base above every cap value: the lowest cap is
\* the score.
C15_Witness ==
    /\ op = "compute_score"
    /\ \A i \in 1..4 : CapsOf(arg)[i].applies
    /\ base_total(arg.papasamya, arg.manglik, arg.poruthams) > 6000
    /\ ret.val = 4500


\* The canonical stars that obstruct the star of a chart.
VedhaPartners(person) ==
    {n \in Range(NAKSHATRA_OPTIONS) :
        compute_vedha_porutham(person, ChartWithStar(n)).status = "Bad"}

\* C16: every canonical nakshatra X has exactly one canonical nakshatra Y for
\* which compute_vedha_porutham(X, Y) is Bad, and the partner table is
\* bidirectional: the partner of the partner of X is X.
C16_OneVedhaPartner ==
    (op = "compute_vedha_porutham" /\ IsCanonicalNak(arg.girl)) =>
        LET x == norm_nak_name(arg.girl.nakshatra)
            partner == norm_nak_name(VEDHA_PAIRS[x])
        IN /\ Cardinality(VedhaPartners(arg.girl)) = 1
           /\ x \in DOMAIN VEDHA_PAIRS
           /\ partner \in DOMAIN VEDHA_PAIRS
           /\ norm_nak_name(VEDHA_PAIRS[partner]) = x


\* A house map restricted to the nine bodies of PLANET_LIST.
NineBodies(m) == [p \in DOMAIN m \cap Range(PLANET_LIST) |-> m[p]]

NineBodyChart(person) ==
    [person EXCEPT !.planets_from_lagna = NineBodies(@),
                   !.navamsa_planets_from_lagna = NineBodies(@)]

HasExtraBody(person) ==
    \/ DOMAIN person.planets_from_lagna \ Range(PLANET_LIST) # {}
    \/ DOMAIN person.navamsa_planets_from_lagna \ Range(PLANET_LIST) # {}

\* C17: a body outside the nine of PLANET_LIST, in any house of the lagna
\* map or of the navamsa map, changes nothing: the papasamya result, the
\* manglik result, the ten classifications, the aggregate score and the
\* career, wealth and life scores are those of the chart without that body.
C17_ExtraBodiesIgnored ==
    /\ (op = "compute_papasamya_for_person" /\ HasExtraBody(arg.person))
            => ret = compute_papasamya_for_person(NineBodyChart(arg.person))
    /\ (op = "papasamya_match" /\ (HasExtraBody(arg.girl) \/ HasExtraBody(arg.boy)))
            => ret = papasamya_match(NineBodyChart(arg.girl), NineBodyChart(arg.boy))
    /\ (op = "compute_overall_match" /\ (HasExtraBody(arg.girl) \/ HasExtraBody(arg.boy)))
            => ret = compute_overall_match(NineBodyChart(arg.girl), NineBodyChart(arg.boy))
    /\ (op = "analyze_individual" /\ HasExtraBody(arg.person) /\ ret.ok) =>
            LET nine == analyze_individual(NineBodyChart(arg.person)).val
            IN /\ ret.val.career_score = nine.career_score
               /\ ret.val.wealth_score = nine.wealth_score
               /\ ret.val.life_score = nine.life_score


\* The grade of each status the claim lists, in hundredths.
GradeTable ==
    "Very Good" :> 100 @@ "Good" :> 85 @@ "SAFE" :> 80 @@ "Acceptable" :> 80 @@
    "Neutral" :> 60 @@ "Average" :> 60 @@ "Unknown" :> 50 @@ "Bad" :> 20

KEYWORDS ==
    {"very good", "good", "safe", "acceptable", "neutral", "average", "weak",
     "not present", "unknown", "bad", "enemy", "not acceptable"}

MatchesNoKeyword(status) == \A kw \in KEYWORDS : ~Contains(kw, str_lower(status))

\* C18: score_porutham_status grades Very Good 1.0, Good 0.85, SAFE and
\* Acceptable 0.8, Neutral and Average 0.6, Unknown 0.5, Bad 0.2 and a status
\* matching no keyword 0.6; every grade is in [0,1], and the porutham score,
\* 6 times the mean of the ten grades, is in [0,6].
C18_StatusGrades ==
    /\ (op = "score_porutham_status") =>
            /\ ret.val \in 0..100
            /\ arg.status \in DOMAIN GradeTable => ret.val = GradeTable[arg.status]
            /\ MatchesNoKeyword(arg.status) => ret.val = 60
    /\ (op = "compute_score") =>
            LET ps == arg.poruthams
                grade(i) == IF ps[i].status \in DOMAIN GradeTable
                            THEN GradeTable[ps[i].status] ELSE 60
                sum == SumOver(1..10, [i \in 1..10 |-> grade(i)])
            IN /\ Len(ps) = 10
               /\ \A i \in 1..10 :
                    ps[i].status \in DOMAIN GradeTable \/ MatchesNoKeyword(ps[i].status)
               /\ porutham_score(ps) = sum * 6
               /\ porutham_score(ps) \in 0..6000

\* "Very Good" holds the keyword "good" too and is graded 1.0.
C18_Witness ==
    /\ op = "score_porutham_status"
    /\ arg.status = "Very Good"
    /\ Contains("good", str_lower(arg.status))
    /\ ret.val = 100


PapScore(d) == IF d = 0 THEN 2000 ELSE IF d \in 1..2 THEN 1500 ELSE IF d \in 3..4 THEN 700 ELSE 200

MangScore(manglik) == IF manglik.girl_manglik = manglik.boy_manglik THEN 2000 ELSE 1000

NoCapApplies(a) == \A i \in 1..4 : ~CapsOf(a)[i].applies

\* C19: before caps the score is base = poruthamScore + papScore + mangScore,
\* papScore being 2.0, 1.5, 0.7, 0.2 for a papasamya difference of 0, 1..2,
\* 3..4, 5 or more, and mangScore 2.0 when both or neither chart is manglik
\* and 1.0 when exactly one is; base is within 0..10, and it is the score
\* returned when no cap applies.
C19_BaseScore ==
    (op = "compute_score") =>
        LET base == porutham_score(arg.poruthams) + PapScore(arg.papasamya.difference)
                        + MangScore(arg.manglik)
        IN /\ base_total(arg.papasamya, arg.manglik, arg.poruthams) = base
           /\ base \in 0..10000
           /\ NoCapApplies(arg) => ret.val = base

\* A difference of 2, the upper end of its tier, with no cap applying.
C19_Witness ==
    /\ op = "compute_score"
    /\ arg.papasamya.difference = 2
    /\ NoCapApplies(arg)
    /\ \A i \in 1..8 : arg.poruthams[i].status = "Very Good"
    /\ ret.val = 9290


ResolvedRasi(person) == norm_rasi_name(person.rasi) \in DOMAIN RASI_INDEX

C21_RasiCommentOverwritten ==
    (op = "compute_rasi_porutham" /\ ResolvedRasi(arg.girl) /\ ResolvedRasi(arg.boy)) =>
        /\ ret.val.comment = RASI_COMMENT_UNFAVORABLE
        /\ ret.val.comment # RASI_COMMENT_FAVORABLE
        /\ ret.val.status =
              (IF ret.val.distance \in {1, 3, 4, 7, 10, 11, 12} THEN "Good" ELSE "Bad")

\* A favorable distance, status Good, with the unfavorable narrative.
C21_Witness ==
    /\ op = "compute_rasi_porutham"
    /\ ResolvedRasi(arg.girl) /\ ResolvedRasi(arg.boy)
    /\ ret.val.distance = 7
    /\ ret.val.status = "Good"
    /\ ret.val.comment = RASI_COMMENT_UNFAVORABLE


\* How one ruling body regards another, read from PLANET_RELATIONSHIPS.
Regards(p, q) ==
    IF p = q THEN "same"
    ELSE IF q \in PLANET_RELATIONSHIPS[p].friends THEN "friend"
    ELSE IF q \in PLANET_RELATIONSHIPS[p].enemies THEN "enemy"
    ELSE "neutral"

AdhipatiTable ==
    {"same"} :> "Very Good" @@ {"friend"} :> "Very Good" @@
    {"friend", "neutral"} :> "Good" @@ {"neutral"} :> "Good" @@
    {"neutral", "enemy"} :> "Average" @@ {"friend", "enemy"} :> "Average" @@
    {"enemy"} :> "Bad"

\* C22: for resolved rasis Rasi Adhipathi classifies the two directed
\* relations of the ruling bodies: same ruler Very Good, friend/friend Very
\* Good, friend/neutral Good, neutral/neutral Good, neutral/enemy and
\* friend/enemy Average (each in either order), enemy/enemy Bad; only
\* enemy/enemy reaches the final else, and exchanging girl and boy leaves the
\* status unchanged.
C22_RasiAdhipati ==
    (op = "compute_rasi_adhipati_porutham"
        /\ ResolvedRasi(arg.girl) /\ ResolvedRasi(arg.boy)) =>
        LET r == ret.val
            g_lord == RASI_LORD[norm_rasi_name(arg.girl.rasi)]
            b_lord == RASI_LORD[norm_rasi_name(arg.boy.rasi)]
        IN /\ r.g_to_b = Regards(g_lord, b_lord)
           /\ r.b_to_g = Regards(b_lord, g_lord)
           /\ {r.g_to_b, r.b_to_g} \in DOMAIN AdhipatiTable
           /\ r.status = AdhipatiTable[{r.g_to_b, r.b_to_g}]
           /\ (r.status = "Bad") = (r.g_to_b = "enemy" /\ r.b_to_g = "enemy")
           /\ compute_rasi_adhipati_porutham(arg.boy, arg.girl).status = r.status

\* Two lords that regard each other differently.
C22_Witness ==
    /\ op = "compute_rasi_adhipati_porutham"
    /\ ResolvedRasi(arg.girl) /\ ResolvedRasi(arg.boy)
    /\ ret.val.g_to_b = "friend"
    /\ ret.val.b_to_g = "enemy"
    /\ ret.val.status = "Average"


YoniGroups == {YONI_BY_NAK[n][1] : n \in DOMAIN YONI_BY_NAK}

\* The enemy groups the table names for a yoni group.
YoniEnemies(group) ==
    {YONI_BY_NAK[n][2] : n \in {k \in DOMAIN YONI_BY_NAK : YONI_BY_NAK[k][1] = group}}

ResolvedYoni(person) == norm_nak_name(person.nakshatra) \in DOMAIN YONI_BY_NAK

\* C23: for nakshatras resolved in the yoni table, Yoni is Very Good when
\* both have the same yoni group, Bad when either group is the other's enemy
\* group and Neutral otherwise; over the 14 groups the enemy of the enemy of
\* a group is the group itself, so exchanging girl and boy leaves the status
\* unchanged.
C23_YoniGroups ==
    (op = "compute_yoni_porutham" /\ ResolvedYoni(arg.girl) /\ ResolvedYoni(arg.boy)) =>
        LET g == YONI_BY_NAK[norm_nak_name(arg.girl.nakshatra)][1]
            b == YONI_BY_NAK[norm_nak_name(arg.boy.nakshatra)][1]
        IN /\ Cardinality(YoniGroups) = 14
           /\ \A x \in {g, b} :
                /\ Cardinality(YoniEnemies(x)) = 1
                /\ \A e \in YoniEnemies(x) : e # x /\ YoniEnemies(e) = {x}
           /\ ret.val.status =
                (IF g = b THEN "Very Good"
                 ELSE IF b \in YoniEnemies(g) \/ g \in YoniEnemies(b) THEN "Bad"
                 ELSE "Neutral")
           /\ (b \in YoniEnemies(g)) = (g \in YoniEnemies(b))
           /\ compute_yoni_porutham(arg.boy, arg.girl).status = ret.val.status

\* Two different stars of one yoni group.
C23_Witness ==
    /\ op = "compute_yoni_porutham"
    /\ IsCanonicalNak(arg.girl) /\ IsCanonicalNak(arg.boy)
    /\ arg.girl.nakshatra # arg.boy.nakshatra
    /\ ret.val.status = "Very Good"


GANAS == {"Deva", "Manushya", "Rakshasa"}

ResolvedGana(person) == norm_nak_name(person.nakshatra) \in DOMAIN GANA_BY_NAK

GanaOf(person) == GANA_BY_NAK[norm_nak_name(person.nakshatra)]

C25_StreeDheerghaDistance ==
    (op = "compute_stree_dheergha_porutham"
        /\ IsCanonicalNak(arg.girl) /\ IsCanonicalNak(arg.boy)) =>
        LET g0 == CanonicalIndex(arg.girl) - 1
            b0 == CanonicalIndex(arg.boy) - 1
            r == ret.val
        IN /\ r.distance = (b0 - g0) % 27
           /\ r.distance \in 0..26
           /\ (r.status = "Good") = (r.distance >= 7)
           /\ (r.status = "Bad") = (r.distance \in 0..6)
           /\ (arg.girl.nakshatra = arg.boy.nakshatra) = (r.distance = 0)

\* The boy's star is the seventh after the girl's, counted around the end
\* of the order.
C25_Witness ==
    /\ op = "compute_stree_dheergha_porutham"
    /\ arg.girl.nakshatra = "Revati"
    /\ arg.boy.nakshatra = "Punarvasu"
    /\ ret.val.distance = 7
    /\ ret.val.status = "Good"


\* Mars is in the lagna house map, in one of the dosha houses.
MarsInDoshaHouse(person) ==
    /\ "Mars" \in DOMAIN person.planets_from_lagna
    /\ person.planets_from_lagna["Mars"] \in {1, 2, 4, 7, 8, 12}

\* Ten results whose base score is above the manglik cap, and ten whose
\* base score is below every cap.
StrongResults == TenResults(8, "Very Good", "SAFE", "Good")
WeakResults == TenResults(0, "Bad", "SAFE", "Good")

\* C26: a chart is flagged manglik exactly when Mars is in its lagna house
\* map with a house in {1,2,4,7,8,12}; manglik_match gives a balanced (both,
\* or neither: no issue) verdict exactly when the two flags are equal and a
\* mismatch verdict exactly when one chart is flagged; compute_score then
\* adds 2.0 and applies no 6.0 cap in the first case, adds 1.0 and caps the
\* score at 6.0 in the second.
C26_ManglikBalance ==
    /\ (op = "manglik_match") =>
        LET gm == MarsInDoshaHouse(arg.girl)
            bm == MarsInDoshaHouse(arg.boy)
            r == ret.val
            none == [difference |-> 0]
        IN /\ r.girl_manglik = gm
           /\ r.boy_manglik = bm
           /\ (r.combined_verdict \in {VERDICT_BOTH, VERDICT_NEITHER}) = (gm = bm)
           /\ (r.combined_verdict \in {VERDICT_GIRL_ONLY, VERDICT_BOY_ONLY}) = (gm # bm)
           /\ (r.combined_verdict = VERDICT_BOTH) = (gm /\ bm)
           /\ (r.combined_verdict = VERDICT_GIRL_ONLY) = (gm /\ ~bm)
           /\ compute_score(none, r, WeakResults)
                = porutham_score(WeakResults) + 2000 + (IF gm = bm THEN 2000 ELSE 1000)
           /\ porutham_score(StrongResults) + 2000 + 1000 > 6000
           /\ compute_score(none, r, StrongResults)
                = (IF gm = bm THEN porutham_score(StrongResults) + 2000 + 2000 ELSE 6000)
    /\ (op = "compute_score") =>
        LET m == arg.manglik
            same == (m.girl_manglik = m.boy_manglik)
            base == porutham_score(arg.poruthams) + PapScore(arg.papasamya.difference)
                        + (IF same THEN 2000 ELSE 1000)
            others == {CapsOf(arg)[i].cap : i \in {j \in {1, 2, 4} : CapsOf(arg)[j].applies}}
        IN /\ ~same => ret.val <= 6000
           /\ LET limits == {base} \cup others \cup (IF same THEN {} ELSE {6000})
              IN ret.val = Clamp10(CHOOSE x \in limits : \A y \in limits : x <= y)

\* The girl's Mars is in house 2, the boy's chart has no Mars: a mismatch.
C26_Witness ==
    /\ op = "manglik_match"
    /\ "Mars" \in DOMAIN arg.girl.planets_from_lagna
    /\ arg.girl.planets_from_lagna["Mars"] = 2
    /\ "Mars" \notin DOMAIN arg.boy.planets_from_lagna
    /\ ret.val.girl_manglik /\ ~ret.val.boy_manglik
    /\ ret.val.combined_verdict = VERDICT_GIRL_ONLY


IsCanonicalRasi(person) == person.rasi \in Range(RASI_OPTIONS)

\* C27: for every ordered pair of the 27 canonical nakshatra names and of the
\* 12 canonical rasi names none of the ten evaluators returns Unknown or
\* raises, and compute_poruthams returns exactly ten results, in the order
\* Dina, Gana, Yoni, Rasi, Rasi Adhipathi, Stree Dheergha, Vasya, Mahendra,
\* Rajju, Vedha.
C27_TablesCoverCanonicalNames ==
    /\ (op \in DOMAIN NakEvaluatorTable /\ IsCanonicalNak(arg.girl) /\ IsCanonicalNak(arg.boy))
            => (ret.ok /\ ret.val.status # "Unknown")
    /\ (op \in RasiEvaluators /\ IsCanonicalRasi(arg.girl) /\ IsCanonicalRasi(arg.boy))
            => (ret.ok /\ ret.val.status # "Unknown")
    /\ (op = "compute_poruthams") =>
            /\ ret.ok
            /\ Len(ret.val) = 10
            /\ [i \in 1..10 |-> ret.val[i].name] = PORUTHAM_NAMES
            /\ (/\ IsCanonicalNak(arg.girl) /\ IsCanonicalNak(arg.boy)
                /\ IsCanonicalRasi(arg.girl) /\ IsCanonicalRasi(arg.boy))
                    => \A i \in 1..10 : ret.val[i].status # "Unknown"

\* The ten results for two different canonical stars in different rasis.
C27_Witness ==
    /\ op = "compute_poruthams"
    /\ arg.girl.nakshatra = "Revati" /\ arg.boy.nakshatra = "Moola"
    /\ IsCanonicalRasi(arg.girl) /\ IsCanonicalRasi(arg.boy)
    /\ arg.girl.rasi # arg.boy.rasi
    /\ Len(ret.val) = 10
    /\ ret.val[9].name = "Rajju" /\ ret.val[10].name = "Vedha"
    /\ \A i \in 1..10 : ret.val[i].status # "Unknown"


\* Ten results, all Good but a SAFE Rajju, with the given Gana status.
ResultsWithGana(status) ==
    [TenResults(0, "Good", "SAFE", "Good") EXCEPT ![2] = PoruthamResult("Gana", status)]

\* The score of ResultsWithGana(status) for a pair with no papasamya
\* difference and no manglik chart.
ScoreWithGana(status) ==
    compute_score([difference |-> 0], [girl_manglik |-> FALSE, boy_manglik |-> FALSE],
                  ResultsWithGana(status))

C29_ReprojectionComposes ==
    (/\ op = "derive_positions_from_reference"
     /\ arg.reference_planet \in DOMAIN arg.planets_from_lagna) =>
        LET m == arg.planets_from_lagna
            r1 == arg.reference_planet
        IN /\ ret.ok
           /\ \A p \in DOMAIN m : m[p] \in 1..12
           /\ \A r2 \in DOMAIN m :
                derive_positions_from_reference(ret.val, r2)
                    = derive_positions_from_reference(m, r2)
           /\ (m[r1] = 1) => (ret.val = m)

\* A map re-projected from Venus, which is not in house 1, and then from the
\* Moon: the result is the projection from the Moon, and the intermediate
\* map differs from the input.
C29_Witness ==
    /\ op = "derive_positions_from_reference"
    /\ arg.reference_planet = "Venus"
    /\ ret.ok
    /\ "Moon" \in DOMAIN arg.planets_from_lagna
    /\ arg.planets_from_lagna["Venus"] # 1
    /\ arg.planets_from_lagna["Moon"] # arg.planets_from_lagna["Venus"]
    /\ ret.val # arg.planets_from_lagna
    /\ derive_positions_from_reference(ret.val, "Moon")
            = derive_positions_from_reference(arg.planets_from_lagna, "Moon")

\* The reference body is in house 1 and other bodies are elsewhere.
C29_WitnessHouseOne ==
    /\ op = "derive_positions_from_reference"
    /\ ret.ok
    /\ arg.planets_from_lagna[arg.reference_planet] = 1
    /\ \E p \in DOMAIN arg.planets_from_lagna : arg.planets_from_lagna[p] = 8
    /\ ret.val = arg.planets_from_lagna


WEALTH_LABELS_REACHED ==
    {"Exceptional / very strong wealth potential", "Strong wealth potential",
     "Good financial potential over time", "Average, finances depend heavily on choices"}

\* C30: every individual score is clamped to at least 3.5 before it is
\* labelled, so analyze_individual never gives the lowest wealth label (the
\* band below 3.0, 'Financial pattern requires care') and only the other four
\* wealth bands occur; the lowest career and life labels (score below 4) are
\* given exactly for the scores 3.5 to 3.9.
C30_LowestWealthBandUnreachable ==
    (op = "analyze_individual" /\ ret.ok) =>
        LET r == ret.val IN
        /\ r.wealth_score >= 3500
        /\ r.wealth_label # "Financial pattern requires care"
        /\ r.wealth_label \in WEALTH_LABELS_REACHED
        /\ r.wealth_label = wealth_label(r.wealth_score)
        /\ (r.career_label = "Challenging career pattern")
                = (r.career_score \in {3500, 3600, 3700, 3800, 3900})
        /\ (r.life_label = "Challenging life pattern - needs conscious effort.")
                = (r.life_score \in {3500, 3600, 3700, 3800, 3900})

\* Three malefics in the second house, Saturn and Rahu in the eighth and the
\* dasha lord Saturn there too: the deductions bring the wealth score under
\* 3.0, the clamp lifts it to 3.5 and the label is the second-lowest one.
C30_Witness ==
    /\ op = "analyze_individual"
    /\ ret.ok
    /\ arg.person.planets_from_lagna["Sun"] = 2
    /\ arg.person.planets_from_lagna["Saturn"] = 8
    /\ arg.person.planets_from_lagna["Rahu"] = 8
    /\ arg.person.current_dasha = "Saturn (till 2026)"
    /\ ret.val.wealth_score = 3500
    /\ ret.val.wealth_label = "Average, finances depend heavily on choices"

====
